---- MODULE Spec2Model ----
(***************************************************************************)
(* Model of the insider-threat detection pipeline:                         *)
(*   - AnomalyEngine (src/real_time/anomaly_engine.py): bounded event      *)
(*     queue, producers calling add_event, the consumer thread             *)
(*     _process_events, _process_batch and stop();                         *)
(*   - AlertManager (src/alerts/alert_manager.py): the alerts and          *)
(*     alert_notifications tables, create_alert, acknowledge_alert,        *)
(*     close_alert, observer callbacks and e-mail notification.            *)
(* Time is counted in half-second ticks; the model keeps the differences   *)
(* the code computes from time.time() (capped where the code only compares *)
(* them with a limit) instead of the absolute clock.                       *)
(***************************************************************************)
EXTENDS Integers, Sequences, FiniteSets, TLC

\* ------------------------------------------------------------------------
\* Bounds and configuration
\* ------------------------------------------------------------------------

\* producer (collector) threads calling add_event
Producers == {"p1", "p2"}

\* events each producer submits
MaxEvents == 2

\* config 'queue_max_size'
QueueMaxSize == 2

\* config 'batch_size' (the windowing configuration batch_size=3)
BatchSize == 3

\* config 'batch_timeout' in ticks (2 s)
BatchTimeout == 4

\* event_queue.get(timeout=1.0) in ticks
PollTimeout == 2

\* processing_thread.join(timeout=5) in ticks
JoinTimeout == 10

\* config 'alert_threshold' and 'high_alert_threshold', in hundredths
AlertThreshold == 70

HighAlertThreshold == 90

\* the quiet period of the windowing scenario in ticks (2.5 s, half a second
\* more than batch_timeout)
Window == BatchTimeout + 1

NoEvent == [src |-> "none", seq |-> 0]

VARIABLES
    is_running,       \* AnomalyEngine.is_running
    event_queue,      \* AnomalyEngine.event_queue (queue.Queue, FIFO)
    event_batch,      \* AnomalyEngine.event_batch
    last_batch_age,   \* time.time() - self.last_batch_time, capped at BatchTimeout
    cons_pc,          \* position of the processing thread in _process_events
    get_wait,         \* time the pending event_queue.get(timeout=1.0) has waited
    check_age,        \* time.time() - current_time (local of _process_events), capped
    prod_pc,          \* position of each producer inside add_event
    prod_event,       \* the event a producer is adding
    next_seq,         \* number of the next event of each producer
    add_result,       \* last return value of add_event per producer
    queue_full_log,   \* number of "Event queue is full, dropping event" warnings
    total_events_collected,  \* performance_stats of the coordinator
    stop_pc,          \* position of the thread calling stop()
    join_wait,        \* time processing_thread.join(timeout=5) has waited
    first_put_age,    \* history: time since the first successful put while all puts
                      \* came together with it; -1 before it, Window + 1 afterwards
    together,         \* history: every successful put fell in the tick of the first
    enqueued,         \* history: events for which add_event returned True
    flushed,          \* history: the batches _process_batch was run on
    stop_pending,     \* history: event_batch at the moment stop() cleared is_running
    triggered,        \* history: alerts passed to _trigger_alert
    alerts,               \* AlertManager: rows of table alerts, by id
    alert_notifications,  \* AlertManager: rows of table alert_notifications
    alert_callbacks,      \* AlertManager.alert_callbacks
    enable_email_alerts,  \* AlertManager.enable_email_alerts (config email.enabled)
    smtp_server,          \* whether config email.smtp_server is set
    call_pc,          \* position of each thread inside create_alert
    call_alert,       \* the alert a thread is creating
    cb_index,         \* position of the callback loop of create_alert
    cb_calls,         \* callbacks create_alert has invoked in the current call
    cb_error,         \* "Error in alert callback" was logged in the current call
    notify_log,       \* what the notification step of the current call logged
    create_log,       \* last error create_alert logged per thread
    call_result,      \* return value of create_alert per thread, "none" while it runs
    op_result,        \* last return value of acknowledge_alert / close_alert
    db_now,           \* AlertManager: the clock in whole seconds (CURRENT_TIMESTAMP)
    stats,            \* AlertManager: last return value of get_alert_statistics
    cleanup_calls,    \* history: number of calls of cleanup_old_alerts
    is_trained,       \* AnomalyEngine.models: is_trained of each detector
    sc_pc,            \* scoring: position of the thread running _process_batch
    sc_batch,         \* scoring: event_batch, the events waiting to be scored
    sc_events,        \* scoring: original_events of the last scoring pass
    sc_raising,       \* scoring: detectors that raised in the last pass
    sc_invoked,       \* scoring: detectors that were run in the last pass
    sc_results,       \* scoring: results handed to _process_anomaly_results
    sc_combined,      \* scoring: combined_scores of the last pass
    sc_alerts,        \* scoring: alerts triggered by the last pass
    sc_callbacks,     \* scoring: number of alert callback invocations so far
    sc_done,          \* scoring: number of runs of _process_batch so far
    sc_prev_raising,  \* scoring: detectors that raised in the pass before
    sc_now,           \* scoring: datetime.now() in whole seconds
    sc_ids,           \* history: the ids of the alerts built so far
    now,              \* sessions: time.time(), in units of half an hour
    user_sessions,    \* AnomalyEngine.user_sessions: user id -> session dictionary
    dict_objects,     \* sessions: the dictionaries in memory, by address
    set_objects,      \* sessions: the sets in memory, by address
    list_objects,     \* sessions: the lists in memory, by address
    returned,         \* sessions: what the caller of get_user_session_info holds
    seen,             \* history: the events of each user _update_user_sessions saw
    alert_session_info, \* sessions: the session_info of the alert a callback holds
    last_cleanup,     \* history: time of the last run of _cleanup_old_sessions
    proc_running,     \* RealTimeDataProcessor.is_running
    start_pc,         \* position of the thread calling RealTimeDataProcessor.start()
    start_index,      \* start(): position of the loop over self.collectors
    collection_threads,  \* RealTimeDataProcessor.collection_threads (names)
    col_pc,           \* position of each collector thread in collection_worker
    col_timer,        \* time since the collector's cycle, sleep or backoff began
    col_failed,       \* history: the collector's last finished cycle raised
    sched_pc,         \* position of the scheduler thread in scheduler_worker
    collection_errors,   \* performance_stats['collection_errors']
    pstop_pc,         \* position of the thread calling RealTimeDataProcessor.stop()
    stop_index,       \* stop(): position of the loop over collection_threads
    pjoin_wait,       \* time the pending join(timeout=5) of stop() has waited
    stop_log,         \* collectors logged as "did not stop gracefully"
    since_stop        \* history: time since stop() cleared is_running, capped

consVars == <<cons_pc, get_wait, check_age>>

prodVars == <<prod_pc, prod_event, next_seq, add_result, queue_full_log,
              total_events_collected>>

stopVars == <<stop_pc, join_wait>>

putHist == <<first_put_age, together, enqueued>>

engineVars == <<is_running, event_queue, event_batch, last_batch_age, consVars,
                prodVars, stopVars, putHist, flushed, stop_pending, triggered>>

callVars == <<call_pc, call_alert, cb_index, cb_calls, cb_error, notify_log,
              create_log, call_result>>

configVars == <<enable_email_alerts, smtp_server>>

tableVars == <<db_now, stats, cleanup_calls>>

managerVars == <<alert_notifications, alert_callbacks, configVars, callVars,
                 op_result, tableVars>>

scoreVars == <<sc_pc, sc_batch, sc_events, sc_raising, sc_invoked, sc_results,
               sc_combined, sc_alerts, sc_callbacks, sc_done, sc_prev_raising,
               sc_now, sc_ids>>

\* the variables of the component-level specifications
sessionVars == <<now, user_sessions, dict_objects, set_objects, list_objects,
                 returned, seen, last_cleanup, alert_session_info>>

processorVars == <<proc_running, start_pc, start_index, collection_threads, col_pc,
                   col_timer, col_failed, sched_pc, collection_errors, pstop_pc,
                   stop_index, pjoin_wait, stop_log, since_stop>>

unitVars == <<is_trained, scoreVars, sessionVars, processorVars>>

vars == <<engineVars, alerts, managerVars, unitVars>>

\* ------------------------------------------------------------------------
\* Helpers
\* ------------------------------------------------------------------------

Range(s) == {s[i] : i \in 1..Len(s)}

Min(a, b) == IF a <= b THEN a ELSE b

\* no row with that id in table alerts
NoRow == [status |-> "absent"]

\* alert ids, severities, the users acknowledging or closing, the threads
\* calling create_alert, the observer callbacks and those of them that raise.
\* Two calls of create_alert share nothing but the database, whose statements
\* are atomic, so one calling thread is interleaved with the other operations.
Ids == {"a1", "a2"}

Severities == {"LOW", "MEDIUM", "HIGH"}

Actors == {"alice", "bob"}

Callers == {"t1"}

Callbacks == {"cb_raises", "cb_ok"}

RaisingCallbacks == {"cb_raises"}

NoAlert == [id |-> "none", severity |-> "none"]

\* ------------------------------------------------------------------------
\* AnomalyEngine
\* ------------------------------------------------------------------------

\* the detectors in the order of AnomalyEngine.models (_load_models)
Detectors == <<"isolation_forest", "autoencoder">>

DetectorNames == Range(Detectors)

\* config 'model_weights', in hundredths
ModelWeights == [isolation_forest |-> 60, autoencoder |-> 40]

\* The isolation forest is an external component (scikit-learn); the score
\* predict_proba gives an event, in hundredths, is a fixed function of the
\* event here: the second event of p1 scores 0.9, the second event of p2
\* scores 0.8, every other event 0.5
DetectorScore(event) ==
    IF event.seq # 2 THEN 50
    ELSE IF event.src = "p1" THEN 90 ELSE 80

\* the isolation forest's score of an event; the events of the scoring
\* specification carry it themselves
RawScore(event) ==
    IF "raw" \in DOMAIN event THEN event.raw ELSE DetectorScore(event)

\* model.detect_anomalies(X, return_scores=True) raises: for the autoencoder
\* always (its detect_anomalies has no parameter return_scores: TypeError),
\* for the isolation forest when it is among the detectors failing on the batch
DetectorRaises(m, raising) == m = "autoencoder" \/ m \in raising

\* the result the isolation forest returns, with model_name and model_weight
ModelResult(m, events) ==
    [model_name |-> m, model_weight |-> ModelWeights[m], kind |-> "anomaly_scores",
     values |-> [i \in 1..Len(events) |-> RawScore(events[i])]]

\* _detect_anomalies giving up at the first detector that raises
RECURSIVE DetectAnomalies_Abort(_, _, _, _)
DetectAnomalies_Abort(trained, raising, events, k) ==
    IF k > Len(Detectors) THEN [results |-> <<>>, invoked |-> {}]
    ELSE LET m == Detectors[k]
             rest == DetectAnomalies_Abort(trained, raising, events, k + 1)
         IN IF ~trained[m] THEN rest
            ELSE IF DetectorRaises(m, raising)
                 THEN [results |-> <<>>, invoked |-> {m}]
                 ELSE [results |-> <<ModelResult(m, events)>> \o rest.results,
                       invoked |-> {m} \cup rest.invoked]

\* _detect_anomalies from detector k on: untrained detectors are skipped, each
\* trained one is run inside its own try/except; gives the results list and the
\* detectors that were run
RECURSIVE DetectAnomalies(_, _, _, _)
DetectAnomalies(trained, raising, events, k) ==
    IF k > Len(Detectors) THEN [results |-> <<>>, invoked |-> {}]
    ELSE LET m == Detectors[k]
             rest == DetectAnomalies(trained, raising, events, k + 1)
         IN IF ~trained[m] THEN rest
            ELSE IF DetectorRaises(m, raising)
                 THEN [results |-> rest.results, invoked |-> {m} \cup rest.invoked]
                 ELSE [results |-> <<ModelResult(m, events)>> \o rest.results,
                       invoked |-> {m} \cup rest.invoked]

SeqMin(v) == CHOOSE x \in Range(v) : \A y \in Range(v) : x <= y

SeqMax(v) == CHOOSE x \in Range(v) : \A y \in Range(v) : x >= y

\* (scores - min) / (max - min + 1e-8) in hundredths, rounded down: because of
\* the 1e-8 the quotient falls just short of the exact one
NormalizeScores(v) ==
    IF Len(v) = 0 THEN v
    ELSE [i \in 1..Len(v) |->
             IF v[i] = SeqMin(v) THEN 0
             ELSE ((v[i] - SeqMin(v)) * 100 - 1) \div (SeqMax(v) - SeqMin(v))]

\* the scores _combine_model_results takes from one result: 'anomaly_scores'
\* rescaled over the batch, or 'predictions' -1 / 1 turned into 1.0 / 0.0
ResultScores(result) ==
    IF result.kind = "anomaly_scores" THEN NormalizeScores(result.values)
    ELSE [i \in 1..Len(result.values) |-> IF result.values[i] = -1 THEN 100 ELSE 0]

\* a result that enters the sums of _combine_model_results
Contributes(result, num_events) ==
    result.kind \in {"anomaly_scores", "predictions"}
        /\ Len(result.values) = num_events

\* total_weight over the results from i on
RECURSIVE TotalWeight(_, _, _)
TotalWeight(results, num_events, i) ==
    IF i > Len(results) THEN 0
    ELSE (IF Contributes(results[i], num_events) THEN results[i].model_weight ELSE 0)
             + TotalWeight(results, num_events, i + 1)

\* combined_scores[k] before the division, over the results from i on
RECURSIVE WeightedSum(_, _, _, _)
WeightedSum(results, num_events, k, i) ==
    IF i > Len(results) THEN 0
    ELSE (IF Contributes(results[i], num_events)
          THEN results[i].model_weight * ResultScores(results[i])[k] ELSE 0)
             + WeightedSum(results, num_events, k, i + 1)

\* _combine_model_results(results, num_events), in hundredths
CombineModelResults(results, num_events) ==
    [k \in 1..num_events |->
        IF TotalWeight(results, num_events, 1) > 0
        THEN WeightedSum(results, num_events, k, 1)
                 \div TotalWeight(results, num_events, 1)
        ELSE 0]

\* _detect_anomalies and _combine_model_results over the events of a batch,
\* no detector failing but the autoencoder
CombinedScores(events) ==
    CombineModelResults(DetectAnomalies(is_trained, {}, events, 1).results,
                        Len(events))

\* _get_severity_level with exclusive lower bounds
GetSeverityLevel_Strict(score) ==
    IF score > HighAlertThreshold THEN "HIGH"
    ELSE IF score > AlertThreshold THEN "MEDIUM"
    ELSE "LOW"

\* _get_severity_level(score)
GetSeverityLevel(score) ==
    IF score >= HighAlertThreshold THEN "HIGH"
    ELSE IF score >= AlertThreshold THEN "MEDIUM"
    ELSE "LOW"

\* _create_alert(event, score, i, results): the alert built for one event
CreateAlert(event, score, i) ==
    [event |-> event, index |-> i, severity |-> GetSeverityLevel(score),
     anomaly_score |-> score]

\* _process_anomaly_results: the alerts for the events whose combined score
\* reaches alert_threshold, in batch order
RECURSIVE BuildAlerts(_, _, _)
BuildAlerts(events, scores, i) ==
    IF i > Len(events) THEN <<>>
    ELSE IF scores[i] >= AlertThreshold
         THEN <<CreateAlert(events[i], scores[i], i - 1)>>
                  \o BuildAlerts(events, scores, i + 1)
         ELSE BuildAlerts(events, scores, i + 1)

\* _process_anomaly_results(results, original_events): nothing without results,
\* else the alerts built from the combined scores
ProcessAnomalyResults(results, events) ==
    IF results = <<>> THEN <<>>
    ELSE BuildAlerts(events, CombineModelResults(results, Len(events)), 1)

\* RealTimeDataProcessor._handle_alert, the only callback registered on the
\* engine: logs the alert; the alert store is left as it is
HandleAlert(store, alert) == store

\* _trigger_alert for each alert in turn: every registered engine callback
RECURSIVE TriggerAlerts(_, _)
TriggerAlerts(store, as) ==
    IF as = <<>> THEN store
    ELSE TriggerAlerts(HandleAlert(store, Head(as)), Tail(as))

\* start(): refuses when already running, else sets the flag and starts the thread
Start ==
    /\ cons_pc = "none"
    /\ ~is_running
    /\ is_running' = TRUE
    /\ cons_pc' = "loop"
    /\ UNCHANGED <<event_queue, event_batch, last_batch_age, get_wait, check_age,
                   prodVars, stopVars, putHist, flushed, stop_pending, triggered,
                   alerts, managerVars, unitVars>>

\* add_event, first half: the is_running test (events carry their timestamp)
AddEventCheck(p) ==
    /\ prod_pc[p] = "idle"
    /\ next_seq[p] <= MaxEvents
    /\ IF ~is_running
       THEN /\ add_result' = [add_result EXCEPT ![p] = "False"]
            /\ next_seq' = [next_seq EXCEPT ![p] = @ + 1]
            /\ UNCHANGED <<prod_pc, prod_event>>
       ELSE /\ prod_pc' = [prod_pc EXCEPT ![p] = "put"]
            /\ prod_event' = [prod_event EXCEPT
                                  ![p] = [src |-> p, seq |-> next_seq[p]]]
            /\ UNCHANGED <<add_result, next_seq>>
    /\ UNCHANGED <<is_running, event_queue, event_batch, last_batch_age, consVars,
                   queue_full_log, total_events_collected, stopVars, putHist,
                   flushed, stop_pending, triggered, alerts, managerVars, unitVars>>

\* add_event with a put that ignores maxsize
AddEventPut_Unbounded(p) ==
    /\ prod_pc[p] = "put"
    /\ event_queue' = Append(event_queue, prod_event[p])
    /\ add_result' = [add_result EXCEPT ![p] = "True"]
    /\ total_events_collected' = total_events_collected + 1
    /\ enqueued' = enqueued \cup {prod_event[p]}
    /\ first_put_age' = IF first_put_age \in {-1, 0} THEN 0 ELSE Window + 1
    /\ together' = (together /\ first_put_age \in {-1, 0})
    /\ prod_pc' = [prod_pc EXCEPT ![p] = "idle"]
    /\ prod_event' = [prod_event EXCEPT ![p] = NoEvent]
    /\ next_seq' = [next_seq EXCEPT ![p] = @ + 1]
    /\ UNCHANGED <<is_running, event_batch, last_batch_age, consVars, stopVars,
                   queue_full_log, flushed, stop_pending, triggered, alerts,
                   managerVars, unitVars>>

\* add_event, second half: event_queue.put(event, block=False); back in
\* collection_worker, `if success: total_events_collected += 1`
AddEventPut(p) ==
    /\ prod_pc[p] = "put"
    /\ IF Len(event_queue) < QueueMaxSize
       THEN /\ event_queue' = Append(event_queue, prod_event[p])
            /\ add_result' = [add_result EXCEPT ![p] = "True"]
            /\ total_events_collected' = total_events_collected + 1
            /\ enqueued' = enqueued \cup {prod_event[p]}
            /\ first_put_age' = IF first_put_age \in {-1, 0} THEN 0 ELSE Window + 1
            /\ together' = (together /\ first_put_age \in {-1, 0})
            /\ UNCHANGED queue_full_log
       ELSE /\ add_result' = [add_result EXCEPT ![p] = "False"]
            /\ queue_full_log' = queue_full_log + 1
            /\ UNCHANGED <<event_queue, putHist, total_events_collected>>
    /\ prod_pc' = [prod_pc EXCEPT ![p] = "idle"]
    /\ prod_event' = [prod_event EXCEPT ![p] = NoEvent]
    /\ next_seq' = [next_seq EXCEPT ![p] = @ + 1]
    /\ UNCHANGED <<is_running, event_batch, last_batch_age, consVars, stopVars,
                   flushed, stop_pending, triggered, alerts,
                   managerVars, unitVars>>

\* _process_events: the test of `while self.is_running`, then the call of
\* event_queue.get(timeout=1.0)
ConsumerLoop ==
    /\ cons_pc = "loop"
    /\ cons_pc' = IF is_running THEN "get" ELSE "dead"
    /\ get_wait' = 0
    /\ UNCHANGED <<is_running, event_queue, event_batch, last_batch_age, check_age,
                   prodVars, stopVars, putHist, flushed, stop_pending, triggered,
                   alerts, managerVars, unitVars>>

\* event_queue.get handing out the newest event instead of the oldest
ConsumerGet_Lifo ==
    /\ cons_pc = "get"
    /\ event_queue # <<>>
    /\ event_batch' = Append(event_batch, event_queue[Len(event_queue)])
    /\ event_queue' = SubSeq(event_queue, 1, Len(event_queue) - 1)
    /\ cons_pc' = "check"
    /\ get_wait' = 0
    /\ UNCHANGED <<is_running, last_batch_age, check_age, prodVars, stopVars,
                   putHist, flushed, stop_pending, triggered, alerts,
                   managerVars, unitVars>>

\* _process_events: event_queue.get returns an event, appended to event_batch
ConsumerGet ==
    /\ cons_pc = "get"
    /\ event_queue # <<>>
    /\ event_batch' = Append(event_batch, Head(event_queue))
    /\ event_queue' = Tail(event_queue)
    /\ cons_pc' = "check"
    /\ get_wait' = 0
    /\ UNCHANGED <<is_running, last_batch_age, check_age, prodVars, stopVars,
                   putHist, flushed, stop_pending, triggered, alerts,
                   managerVars, unitVars>>

\* _process_events: event_queue.get(timeout=1.0) raises Empty
ConsumerEmpty ==
    /\ cons_pc = "get"
    /\ event_queue = <<>>
    /\ get_wait >= PollTimeout
    /\ cons_pc' = "check"
    /\ get_wait' = 0
    /\ UNCHANGED <<is_running, event_queue, event_batch, last_batch_age, check_age,
                   prodVars, stopVars, putHist, flushed, stop_pending, triggered,
                   alerts, managerVars, unitVars>>

\* should_process_batch that tests the size of the batch only
ShouldProcessBatch_SizeOnly(batch, age) ==
    Len(batch) >= BatchSize

\* should_process_batch of _process_events; age is current_time - last_batch_time
ShouldProcessBatch(batch, age) ==
    \/ Len(batch) >= BatchSize
    \/ (batch # <<>> /\ age >= BatchTimeout)

\* _process_events: current_time = time.time(), should_process_batch and, when it
\* holds, the entry of _process_batch (the batch is handed to the detectors)
ConsumerCheck ==
    /\ cons_pc = "check"
    /\ check_age' = 0
    /\ IF ShouldProcessBatch(event_batch, last_batch_age)
       THEN /\ flushed' = Append(flushed, [batch |-> event_batch, by |-> "consumer"])
            /\ cons_pc' = "scoring"
       ELSE /\ cons_pc' = "loop"
            /\ UNCHANGED flushed
    /\ UNCHANGED <<is_running, event_queue, event_batch, last_batch_age, get_wait,
                   prodVars, stopVars, putHist, stop_pending, triggered, alerts,
                   managerVars, unitVars>>

\* _process_batch, from the detectors' results to the end, then
\* last_batch_time = current_time back in _process_events
ConsumerBatchEnd ==
    /\ cons_pc = "scoring"
    /\ LET built == BuildAlerts(event_batch, CombinedScores(event_batch), 1)
       IN /\ triggered' = triggered \cup Range(built)
          /\ alerts' = TriggerAlerts(alerts, built)
    /\ event_batch' = <<>>
    /\ last_batch_age' = check_age
    /\ check_age' = 0
    /\ cons_pc' = "loop"
    /\ UNCHANGED <<is_running, event_queue, get_wait, prodVars, stopVars, putHist,
                   flushed, stop_pending, managerVars, unitVars>>

\* stop(): clears is_running; joins the processing thread if it is alive
StopCall ==
    /\ stop_pc = "idle"
    /\ cons_pc # "none"
    /\ is_running' = FALSE
    /\ stop_pending' = event_batch
    /\ stop_pc' = IF cons_pc # "dead" THEN "join" ELSE "final"
    /\ join_wait' = 0
    /\ UNCHANGED <<event_queue, event_batch, last_batch_age, consVars, prodVars,
                   putHist, flushed, triggered, alerts,
                   managerVars, unitVars>>

\* stop(): join(timeout=5) returns, the thread having ended or the timeout passed
StopJoin ==
    /\ stop_pc = "join"
    /\ (cons_pc = "dead" \/ join_wait >= JoinTimeout)
    /\ stop_pc' = "final"
    /\ join_wait' = 0
    /\ UNCHANGED <<is_running, event_queue, event_batch, last_batch_age, consVars,
                   prodVars, putHist, flushed, stop_pending, triggered, alerts,
                   managerVars, unitVars>>

\* stop() without the final _process_batch
StopFinal_NoFlush ==
    /\ stop_pc = "final"
    /\ stop_pc' = "done"
    /\ UNCHANGED <<is_running, event_queue, event_batch, last_batch_age, consVars,
                   prodVars, join_wait, putHist, flushed, stop_pending, triggered,
                   alerts, managerVars, unitVars>>

\* stop(): `if self.event_batch: self._process_batch()`, up to the detectors
StopFinal ==
    /\ stop_pc = "final"
    /\ IF event_batch # <<>>
       THEN /\ flushed' = Append(flushed, [batch |-> event_batch, by |-> "stop"])
            /\ stop_pc' = "scoring"
       ELSE /\ stop_pc' = "done"
            /\ UNCHANGED flushed
    /\ UNCHANGED <<is_running, event_queue, event_batch, last_batch_age, consVars,
                   prodVars, join_wait, putHist, stop_pending, triggered, alerts,
                   managerVars, unitVars>>

\* stop(): the rest of _process_batch, then stop() returns
StopBatchEnd ==
    /\ stop_pc = "scoring"
    /\ LET built == BuildAlerts(event_batch, CombinedScores(event_batch), 1)
       IN /\ triggered' = triggered \cup Range(built)
          /\ alerts' = TriggerAlerts(alerts, built)
    /\ event_batch' = <<>>
    /\ stop_pc' = "done"
    /\ UNCHANGED <<is_running, event_queue, last_batch_age, consVars, prodVars,
                   join_wait, putHist, flushed, stop_pending, managerVars, unitVars>>

\* a step that takes no time is pending: the clock may not pass it
Urgent ==
    \/ cons_pc \in {"loop", "check"}
    \/ (cons_pc = "get" /\ (event_queue # <<>> \/ get_wait >= PollTimeout))
    \/ \E p \in Producers : prod_pc[p] = "put"
    \/ stop_pc = "final"
    \/ (stop_pc = "join" /\ (cons_pc = "dead" \/ join_wait >= JoinTimeout))

\* half a second passes
Tick ==
    /\ ~Urgent
    /\ last_batch_age' = Min(last_batch_age + 1, BatchTimeout)
    /\ check_age' = IF cons_pc = "scoring"
                    THEN Min(check_age + 1, BatchTimeout) ELSE check_age
    /\ get_wait' = IF cons_pc = "get" THEN get_wait + 1 ELSE get_wait
    /\ join_wait' = IF stop_pc = "join" THEN join_wait + 1 ELSE join_wait
    /\ first_put_age' = IF first_put_age \in 0..Window
                        THEN first_put_age + 1 ELSE first_put_age
    /\ UNCHANGED <<is_running, event_queue, event_batch, cons_pc, prodVars, stop_pc,
                   together, enqueued, flushed, stop_pending, triggered, alerts,
                   managerVars, unitVars>>

\* ------------------------------------------------------------------------
\* AlertManager
\* ------------------------------------------------------------------------

\* the row INSERT INTO alerts stores: status defaults to 'open', the
\* acknowledgement columns to NULL
NewRow(alert) ==
    [status |-> "open", severity |-> alert.severity, acknowledged_by |-> "NULL",
     updated_at |-> db_now]

\* _log_notification: one alert_notifications row per recipient
LogNotification(rows, alert_id, notification_type, recipients, status) ==
    rows \cup {[alert_id |-> alert_id, notification_type |-> notification_type,
                recipient |-> r, status |-> status] : r \in recipients}

\* _send_email_notification: returns early without an SMTP server; otherwise
\* `msg = MimeMultipart()` raises NameError (the module imports MIMEMultipart),
\* and the handler logs the failure for the empty recipient list
SendEmailNotification(rows, alert) ==
    IF ~smtp_server THEN rows
    ELSE LogNotification(rows, alert.id, "email", {}, "failed")

\* what _send_email_notification writes to the logger
SendEmailLog == IF ~smtp_server THEN "smtp_not_configured" ELSE "send_failed"

\* add_alert_callback(callback)
AddAlertCallback(c) ==
    /\ c \notin Range(alert_callbacks)
    /\ alert_callbacks' = Append(alert_callbacks, c)
    /\ UNCHANGED <<engineVars, unitVars, tableVars, alerts, alert_notifications, configVars, callVars,
                   op_result>>

\* create_alert: entry and the required-fields check
CreateAlertCall(t, id, severity, wellformed) ==
    /\ call_pc[t] = "idle"
    /\ IF wellformed
       THEN /\ call_pc' = [call_pc EXCEPT ![t] = "insert"]
            /\ call_alert' = [call_alert EXCEPT
                                  ![t] = [id |-> id, severity |-> severity]]
            /\ create_log' = [create_log EXCEPT ![t] = "none"]
            /\ call_result' = [call_result EXCEPT ![t] = "none"]
       ELSE /\ call_result' = [call_result EXCEPT ![t] = "False"]
            /\ create_log' = [create_log EXCEPT ![t] = "missing_field"]
            /\ UNCHANGED <<call_pc, call_alert>>
    /\ UNCHANGED <<engineVars, unitVars, tableVars, alerts, alert_notifications, alert_callbacks,
                   configVars, cb_index, cb_calls, cb_error, notify_log, op_result>>

\* create_alert with INSERT OR REPLACE: a duplicate id overwrites the row
CreateAlertInsert_Replace(t) ==
    /\ call_pc[t] = "insert"
    /\ alerts' = [alerts EXCEPT ![call_alert[t].id] = NewRow(call_alert[t])]
    /\ call_pc' = [call_pc EXCEPT ![t] = "notify"]
    /\ UNCHANGED <<engineVars, unitVars, tableVars, alert_notifications, alert_callbacks, configVars,
                   call_alert, cb_index, cb_calls, cb_error, notify_log,
                   create_log, call_result, op_result>>

\* create_alert: INSERT INTO alerts and commit; a duplicate id violates the
\* PRIMARY KEY, the exception is caught and create_alert returns False
CreateAlertInsert(t) ==
    /\ call_pc[t] = "insert"
    /\ IF alerts[call_alert[t].id] # NoRow
       THEN /\ call_result' = [call_result EXCEPT ![t] = "False"]
            /\ create_log' = [create_log EXCEPT ![t] = "integrity_error"]
            /\ call_pc' = [call_pc EXCEPT ![t] = "idle"]
            /\ call_alert' = [call_alert EXCEPT ![t] = NoAlert]
            /\ UNCHANGED alerts
       ELSE /\ alerts' = [alerts EXCEPT ![call_alert[t].id] = NewRow(call_alert[t])]
            /\ call_pc' = [call_pc EXCEPT ![t] = "notify"]
            /\ UNCHANGED <<call_result, create_log, call_alert>>
    /\ UNCHANGED <<engineVars, unitVars, tableVars, alert_notifications, alert_callbacks, configVars,
                   cb_index, cb_calls, cb_error, notify_log, op_result>>

\* create_alert: self._send_alert_notifications(alert), run by the caller
CreateAlertNotify(t) ==
    /\ call_pc[t] = "notify"
    /\ IF enable_email_alerts /\ call_alert[t].severity \in {"HIGH", "MEDIUM"}
       THEN /\ alert_notifications' =
                   SendEmailNotification(alert_notifications, call_alert[t])
            /\ notify_log' = [notify_log EXCEPT ![t] = SendEmailLog]
       ELSE /\ UNCHANGED alert_notifications
            /\ notify_log' = [notify_log EXCEPT ![t] = "not_sent"]
    /\ call_pc' = [call_pc EXCEPT ![t] = "callbacks"]
    /\ cb_index' = [cb_index EXCEPT ![t] = 1]
    /\ UNCHANGED <<engineVars, unitVars, tableVars, alerts, alert_callbacks, configVars, call_alert,
                   cb_calls, cb_error, create_log, call_result, op_result>>

\* create_alert whose callback loop lets a callback's exception escape to the
\* outer handler, which returns False
CreateAlertCallback_Abort(t) ==
    /\ call_pc[t] = "callbacks"
    /\ cb_index[t] <= Len(alert_callbacks)
    /\ IF alert_callbacks[cb_index[t]] \in RaisingCallbacks
       THEN /\ call_result' = [call_result EXCEPT ![t] = "False"]
            /\ call_pc' = [call_pc EXCEPT ![t] = "idle"]
            /\ call_alert' = [call_alert EXCEPT ![t] = NoAlert]
            /\ cb_index' = [cb_index EXCEPT ![t] = 0]
            /\ cb_calls' = [cb_calls EXCEPT ![t] = <<>>]
            /\ cb_error' = [cb_error EXCEPT ![t] = FALSE]
            /\ notify_log' = [notify_log EXCEPT ![t] = "none"]
       ELSE /\ cb_calls' = [cb_calls EXCEPT
                                ![t] = Append(@, alert_callbacks[cb_index[t]])]
            /\ cb_index' = [cb_index EXCEPT ![t] = @ + 1]
            /\ UNCHANGED <<call_pc, call_alert, cb_error, notify_log, call_result>>
    /\ UNCHANGED <<engineVars, unitVars, tableVars, alerts, alert_notifications, alert_callbacks,
                   configVars, create_log, op_result>>

\* create_alert: one turn of `for callback in self.alert_callbacks`; an
\* exception of the callback is caught and logged
CreateAlertCallback(t) ==
    /\ call_pc[t] = "callbacks"
    /\ cb_index[t] <= Len(alert_callbacks)
    /\ cb_calls' = [cb_calls EXCEPT ![t] = Append(@, alert_callbacks[cb_index[t]])]
    /\ cb_error' = [cb_error EXCEPT
                        ![t] = @ \/ alert_callbacks[cb_index[t]] \in RaisingCallbacks]
    /\ cb_index' = [cb_index EXCEPT ![t] = @ + 1]
    /\ UNCHANGED <<engineVars, unitVars, tableVars, alerts, alert_notifications, alert_callbacks,
                   configVars, call_pc, call_alert, notify_log, create_log,
                   call_result, op_result>>

\* create_alert: the callback loop is exhausted, return True
CreateAlertReturn(t) ==
    /\ call_pc[t] = "callbacks"
    /\ cb_index[t] > Len(alert_callbacks)
    /\ call_result' = [call_result EXCEPT ![t] = "True"]
    /\ call_pc' = [call_pc EXCEPT ![t] = "idle"]
    /\ call_alert' = [call_alert EXCEPT ![t] = NoAlert]
    /\ cb_index' = [cb_index EXCEPT ![t] = 0]
    /\ cb_calls' = [cb_calls EXCEPT ![t] = <<>>]
    /\ cb_error' = [cb_error EXCEPT ![t] = FALSE]
    /\ notify_log' = [notify_log EXCEPT ![t] = "none"]
    /\ UNCHANGED <<engineVars, unitVars, tableVars, alerts, alert_notifications, alert_callbacks,
                   configVars, create_log, op_result>>

\* acknowledge_alert: UPDATE alerts SET status = 'acknowledged', ... WHERE id = ?
\* and the test of cursor.rowcount
AcknowledgeAlert(id, by) ==
    /\ IF alerts[id] # NoRow
       THEN /\ alerts' = [alerts EXCEPT ![id].status = "acknowledged",
                                        ![id].acknowledged_by = by,
                                        ![id].updated_at = db_now]
            /\ op_result' = "True"
       ELSE /\ op_result' = "False"
            /\ UNCHANGED alerts
    /\ UNCHANGED <<engineVars, unitVars, tableVars, alert_notifications, alert_callbacks, configVars,
                   callVars>>

\* close_alert: UPDATE alerts SET status = 'closed', ... WHERE id = ? and the
\* test of cursor.rowcount
CloseAlert(id, by) ==
    /\ IF alerts[id] # NoRow
       THEN /\ alerts' = [alerts EXCEPT ![id].status = "closed",
                                        ![id].acknowledged_by = by,
                                        ![id].updated_at = db_now]
            /\ op_result' = "True"
       ELSE /\ op_result' = "False"
            /\ UNCHANGED alerts
    /\ UNCHANGED <<engineVars, unitVars, tableVars, alert_notifications, alert_callbacks, configVars,
                   callVars>>

\* get_alert_statistics has not returned yet
NoStats == [total_alerts |-> -1]

\* SELECT COUNT(*) FROM alerts WHERE status IN (...)
StatusCount(table, statuses) ==
    Cardinality({id \in DOMAIN table : table[id].status \in statuses})

\* per-severity count taken over all alerts
SeverityCount_All(table, severity) ==
    Cardinality({id \in DOMAIN table :
                    /\ table[id] # NoRow
                    /\ table[id].severity = severity})

\* SELECT severity, COUNT(*) FROM alerts WHERE status IN ('open',
\* 'acknowledged') GROUP BY severity, read with .get(severity, 0)
SeverityCount(table, severity) ==
    Cardinality({id \in DOMAIN table :
                    /\ table[id].status \in {"open", "acknowledged"}
                    /\ table[id].severity = severity})

\* the dictionary get_alert_statistics returns (alerts_last_24h and
\* avg_response_time_minutes, which read the alerts' timestamps, are left out)
AlertStatistics(table) ==
    [total_alerts |-> StatusCount(table, {"open", "acknowledged", "closed"}),
     active_count |-> StatusCount(table, {"open", "acknowledged"}),
     high_severity_count |-> SeverityCount(table, "HIGH"),
     medium_severity_count |-> SeverityCount(table, "MEDIUM"),
     low_severity_count |-> SeverityCount(table, "LOW"),
     open_count |-> StatusCount(table, {"open"}),
     acknowledged_count |-> StatusCount(table, {"acknowledged"}),
     closed_count |-> StatusCount(table, {"closed"})]

\* get_alert_statistics()
GetAlertStatistics ==
    /\ stats' = AlertStatistics(alerts)
    /\ UNCHANGED <<engineVars, unitVars, alerts, alert_notifications, alert_callbacks,
                   configVars, callVars, op_result, db_now, cleanup_calls>>

\* the tables get_alert_statistics is called on: up to five alerts, each open,
\* acknowledged or closed (by alice) and of any severity
StatIds == {"a1", "a2", "a3", "a4", "a5"}

StatRows ==
    {NoRow} \cup
    {[status |-> status, severity |-> severity,
      acknowledged_by |-> IF status = "open" THEN "NULL" ELSE "alice",
      updated_at |-> 0] :
        status \in {"open", "acknowledged", "closed"}, severity \in Severities}

StatTables == [StatIds -> StatRows]

\* the clock of the alert manager stops here (whole seconds)
MaxAlertTime == 1

\* calls of cleanup_old_alerts followed
MaxCleanups == 2

\* timedelta(days=1) in seconds
SecondsPerDay == 86400

\* the rows both DELETE statements of cleanup_old_alerts select: status =
\* 'closed' AND datetime(updated_at) < datetime(cutoff), where cutoff is
\* datetime.now() - timedelta(days=days_to_keep), updated_at was written by
\* CURRENT_TIMESTAMP, and datetime() keeps whole seconds.  The host's local
\* time is UTC; elsewhere the cutoff is shifted by the zone's offset.
ExpiredAlerts(days_to_keep) ==
    {id \in DOMAIN alerts :
        /\ alerts[id].status = "closed"
        /\ alerts[id].updated_at < db_now - days_to_keep * SecondsPerDay}

\* cleanup_old_alerts(days_to_keep): DELETE FROM alert_notifications of the
\* selected alerts, DELETE FROM alerts, commit
CleanupOldAlerts(days_to_keep) ==
    /\ cleanup_calls < MaxCleanups
    /\ alert_notifications' =
           {n \in alert_notifications : n.alert_id \notin ExpiredAlerts(days_to_keep)}
    /\ alerts' = [id \in DOMAIN alerts |->
                     IF id \in ExpiredAlerts(days_to_keep) THEN NoRow ELSE alerts[id]]
    /\ cleanup_calls' = cleanup_calls + 1
    /\ UNCHANGED <<engineVars, unitVars, alert_callbacks, configVars, callVars,
                   op_result, db_now, stats>>

\* a second passes on the clock of the alert manager
AlertTick ==
    /\ db_now < MaxAlertTime
    /\ db_now' = db_now + 1
    /\ UNCHANGED <<engineVars, unitVars, alerts, alert_notifications, alert_callbacks,
                   configVars, callVars, op_result, stats, cleanup_calls>>

\* ------------------------------------------------------------------------
\* Specifications
\* ------------------------------------------------------------------------

\* ------------------------------------------------------------------------
\* Scoring: _process_batch and what it calls, on the thread that runs it
\* ------------------------------------------------------------------------

\* runs of _process_batch followed
MaxBatches == 2

\* longest batch scored
MaxBatchLen == 3

\* scores the isolation forest gives, in hundredths
RawScores == {20, 80, 100}

\* batches of events, each carrying the isolation forest's score of it
ScoreBatches ==
    UNION {[1..n -> {[raw |-> r] : r \in RawScores}] : n \in 1..MaxBatchLen}

\* detectors other than the autoencoder that may raise on a batch
FailingSets == SUBSET {"isolation_forest"}

\* argument lists of a direct call of _process_anomaly_results: one or two
\* events, up to two results carrying 'anomaly_scores', 'predictions' or
\* neither, of the batch's length or not, under three settings of model_weights
CallEvents == UNION {[1..n -> {[raw |-> 0]}] : n \in 1..2}

CallValues ==
    [anomaly_scores |-> UNION {[1..n -> {20, 80}] : n \in 1..2},
     predictions |-> UNION {[1..n -> {-1, 1}] : n \in 1..2},
     none |-> {<<>>}]

CallWeights == {<<60, 40>>, <<70, 30>>, <<90, 10>>}

CallResult(m, weight) ==
    UNION {{[model_name |-> m, model_weight |-> weight, kind |-> kind, values |-> v] :
               v \in CallValues[kind]} :
           kind \in {"anomaly_scores", "predictions", "none"}}

CallResults ==
    UNION {{<<>>}
           \cup {<<a>> : a \in CallResult(Detectors[1], w[1])}
           \cup {<<a, b>> : a \in CallResult(Detectors[1], w[1]),
                            b \in CallResult(Detectors[2], w[2])} :
           w \in CallWeights}

\* the clock of the scoring passes stops here (whole seconds)
MaxScoreTime == 1

\* 'id' of _create_alert: f"alert_{datetime.now().strftime('%Y%m%d_%H%M%S')}_
\* {event_index}", the clock's second and the event's index in its batch
AlertId(second, event_index) == <<second, event_index>>

\* the ids of the alerts of one pass
AlertIds(built, second) == [k \in 1..Len(built) |-> AlertId(second, built[k].index)]

\* a second passes between two runs of _process_batch
ScoreTick ==
    /\ sc_pc = "loop"
    /\ sc_now < MaxScoreTime
    /\ sc_now' = sc_now + 1
    /\ UNCHANGED <<engineVars, alerts, managerVars, processorVars, is_trained,
                   sessionVars, sc_pc, sc_batch, sc_events, sc_raising, sc_invoked,
                   sc_results, sc_combined, sc_alerts, sc_callbacks, sc_done,
                   sc_prev_raising, sc_ids>>

\* the processing thread has a batch to score (should_process_batch held)
ScoreTakeBatch(batch) ==
    /\ sc_pc = "loop"
    /\ sc_done < MaxBatches
    /\ sc_batch' = batch
    /\ sc_pc' = "batch"
    /\ UNCHANGED <<engineVars, alerts, managerVars, processorVars, is_trained, sessionVars, sc_events,
                   sc_raising, sc_invoked, sc_results, sc_combined, sc_alerts,
                   sc_callbacks, sc_done, sc_prev_raising, sc_now, sc_ids>>

\* _process_batch that returns without clearing event_batch when no detector
\* gave a result
ScoreProcessBatch_KeepBatch(raising) ==
    /\ sc_pc = "batch"
    /\ LET d == DetectAnomalies(is_trained, raising, sc_batch, 1)
           built == ProcessAnomalyResults(d.results, sc_batch)
       IN /\ sc_invoked' = d.invoked
          /\ sc_raising' = {m \in d.invoked : DetectorRaises(m, raising)}
          /\ sc_results' = d.results
          /\ sc_combined' = IF d.results = <<>> THEN <<>>
                            ELSE CombineModelResults(d.results, Len(sc_batch))
          /\ sc_alerts' = built
          /\ sc_callbacks' = sc_callbacks + Len(built)
          /\ sc_ids' = sc_ids \o AlertIds(built, sc_now)
          /\ sc_batch' = IF d.results = <<>> THEN sc_batch ELSE <<>>
    /\ sc_events' = sc_batch
    /\ sc_prev_raising' = sc_raising
    /\ sc_done' = sc_done + 1
    /\ sc_pc' = "loop"
    /\ UNCHANGED <<engineVars, alerts, managerVars, processorVars, is_trained,
                   sessionVars, sc_now>>

\* _process_batch: _detect_anomalies over the trained detectors, some of which
\* raise, _process_anomaly_results with one callback per alert, then
\* event_batch = [] and back to the loop of _process_events
ScoreProcessBatch(raising) ==
    /\ sc_pc = "batch"
    /\ LET d == DetectAnomalies(is_trained, raising, sc_batch, 1)
           built == ProcessAnomalyResults(d.results, sc_batch)
       IN /\ sc_invoked' = d.invoked
          /\ sc_raising' = {m \in d.invoked : DetectorRaises(m, raising)}
          /\ sc_results' = d.results
          /\ sc_combined' = IF d.results = <<>> THEN <<>>
                            ELSE CombineModelResults(d.results, Len(sc_batch))
          /\ sc_alerts' = built
          /\ sc_callbacks' = sc_callbacks + Len(built)
          /\ sc_ids' = sc_ids \o AlertIds(built, sc_now)
    /\ sc_events' = sc_batch
    /\ sc_batch' = <<>>
    /\ sc_prev_raising' = sc_raising
    /\ sc_done' = sc_done + 1
    /\ sc_pc' = "loop"
    /\ UNCHANGED <<engineVars, alerts, managerVars, processorVars, is_trained,
                   sessionVars, sc_now>>

\* _process_anomaly_results(results, original_events) called on its own
ProcessAnomalyResultsCall(results, events) ==
    /\ sc_pc = "loop"
    /\ sc_done = 0
    /\ sc_events' = events
    /\ sc_results' = results
    /\ sc_combined' = IF results = <<>> THEN <<>>
                      ELSE CombineModelResults(results, Len(events))
    /\ sc_alerts' = ProcessAnomalyResults(results, events)
    /\ sc_callbacks' = sc_callbacks + Len(ProcessAnomalyResults(results, events))
    /\ sc_ids' = sc_ids \o AlertIds(ProcessAnomalyResults(results, events), sc_now)
    /\ sc_pc' = "called"
    /\ UNCHANGED <<engineVars, alerts, managerVars, processorVars, is_trained, sessionVars, sc_batch,
                   sc_raising, sc_invoked, sc_done, sc_prev_raising, sc_now>>

\* ------------------------------------------------------------------------
\* User sessions: _update_user_sessions, get_user_session_info and the
\* maintenance task _cleanup_old_sessions
\* ------------------------------------------------------------------------

Users == {"u1", "u2"}

\* config 'session_timeout' (3600 s) in units of half an hour
SessionTimeout == 2

\* the clock stops here
MaxTime == 3

\* events handed to _update_user_sessions in all
MaxSessionEvents == 3

\* the value a caller writes into a returned dictionary (1.0; no event has it)
CallerRisk == HighAlertThreshold + 10

\* the events of a batch: dictionaries with or without the keys user_id,
\* risk_score (in hundredths) and event_type
SessionEvents ==
    {[user_id |-> "u1", risk_score |-> 20, event_type |-> "login"],
     [user_id |-> "u1", risk_score |-> 90, event_type |-> "file_access"],
     [user_id |-> "u1", risk_score |-> 10, event_type |-> "login"],
     [user_id |-> "u1"],
     [user_id |-> "u2", risk_score |-> 20, event_type |-> "login"],
     [risk_score |-> 90, event_type |-> "file_access"]}

SessionBatches == UNION {[1..n -> SessionEvents] : n \in 1..MaxBatchLen}

Max(a, b) == IF a >= b THEN a ELSE b

\* pd.DataFrame(self.event_batch) has a column for every key of some event
HasColumn(batch, key) == \E i \in 1..Len(batch) : key \in DOMAIN batch[i]

\* the dictionary _update_user_sessions stores for a new user
NewSession(t, types) ==
    [start_time |-> t, last_activity |-> t, event_count |-> 0, risk_score |-> 0,
     duration |-> 0, event_types |-> types]

\* session['risk_score'] that keeps the risk of the last event only
SessionRisk_Last(old, event, batch) ==
    IF "risk_score" \in DOMAIN event THEN event.risk_score ELSE 0

\* session['risk_score'] = max(session['risk_score'], event_risk): a row
\* without a risk_score reads 0.0 when no event of the batch has one and NaN
\* otherwise, and max(x, nan) is x
SessionRisk(old, event, batch) ==
    IF "risk_score" \in DOMAIN event THEN Max(old, event.risk_score)
    ELSE IF HasColumn(batch, "risk_score") THEN old
    ELSE Max(old, 0)

\* event.get('event_type', ''): '' without the column, NaN (which is true in a
\* condition and is added to the set) in a row that lacks the key
EventTypeOf(event, batch) ==
    IF "event_type" \in DOMAIN event THEN event.event_type
    ELSE IF HasColumn(batch, "event_type") THEN "nan"
    ELSE ""

\* one iteration of the loop of _update_user_sessions at time t, on the
\* memory S = [user_sessions, dict_objects, set_objects, seen].  A row without
\* user_id is skipped (or, when the batch has the column, filed under a NaN
\* key that no user id finds; those entries are not followed here)
UpdateSession(S, event, batch, t) ==
    IF "user_id" \notin DOMAIN event THEN S
    ELSE
        LET u == event.user_id
            created ==
                IF u \in DOMAIN S.user_sessions THEN S
                ELSE [S EXCEPT
                         !.user_sessions = (u :> u) @@ S.user_sessions,
                         !.dict_objects =
                             (u :> NewSession(t, [kind |-> "set", addr |-> u]))
                                 @@ S.dict_objects,
                         !.set_objects = (u :> {}) @@ S.set_objects]
            addr == created.user_sessions[u]
            session == created.dict_objects[addr]
            types == session.event_types.addr
            event_type == EventTypeOf(event, batch)
        IN [created EXCEPT
               !.dict_objects[addr] =
                   [session EXCEPT
                       !.last_activity = t,
                       !.event_count = @ + 1,
                       !.duration = t - session.start_time,
                       !.risk_score = SessionRisk(@, event, batch)],
               !.set_objects[types] =
                   IF event_type = "" THEN @ ELSE @ \cup {event_type},
               !.seen[u] = Append(@, event)]

RECURSIVE UpdateSessions(_, _, _, _)
\* the loop of _update_user_sessions from row i on
UpdateSessions(S, batch, i, t) ==
    IF i > Len(batch) THEN S
    ELSE UpdateSessions(UpdateSession(S, batch[i], batch, t), batch, i + 1, t)

SeenCount == Len(seen["u1"]) + Len(seen["u2"])

\* _update_user_sessions(df) as _process_batch calls it on a batch
UpdateUserSessions(batch) ==
    /\ SeenCount + Len(batch) <= MaxSessionEvents
    /\ LET S == UpdateSessions([user_sessions |-> user_sessions,
                                dict_objects |-> dict_objects,
                                set_objects |-> set_objects,
                                seen |-> seen], batch, 1, now)
       IN /\ user_sessions' = S.user_sessions
          /\ dict_objects' = S.dict_objects
          /\ set_objects' = S.set_objects
          /\ seen' = S.seen
    /\ UNCHANGED <<engineVars, alerts, managerVars, processorVars, is_trained, scoreVars, now,
                   list_objects, returned, last_cleanup, alert_session_info>>

\* _get_user_context(user_id)['session_info'] on the memory S:
\* self.user_sessions.get(user_id, {}), the stored dictionary or a new empty one
GetUserContext(S, user_id) ==
    IF user_id \in DOMAIN S.user_sessions THEN S.user_sessions[user_id]
    ELSE "empty"

\* event.get('user_id') of an event of self.event_batch
UserIdOf(event) ==
    IF "user_id" \in DOMAIN event THEN event.user_id ELSE "None"

\* _process_batch on a batch whose event at index reaches alert_threshold:
\* the sessions are updated, then _create_alert builds the alert with
\* user_context = _get_user_context(event.get('user_id')) and _trigger_alert
\* hands it to the callbacks
ProcessBatchAlert(batch, index) ==
    /\ SeenCount + Len(batch) <= MaxSessionEvents
    /\ LET S == UpdateSessions([user_sessions |-> user_sessions,
                                dict_objects |-> dict_objects,
                                set_objects |-> set_objects,
                                seen |-> seen], batch, 1, now)
       IN /\ user_sessions' = S.user_sessions
          /\ dict_objects' = S.dict_objects
          /\ set_objects' = S.set_objects
          /\ seen' = S.seen
          /\ alert_session_info' = GetUserContext(S, UserIdOf(batch[index]))
    /\ UNCHANGED <<engineVars, alerts, managerVars, processorVars, is_trained, scoreVars, now,
                   list_objects, returned, last_cleanup>>

\* the orders list(a_set) may give
Orderings(set) ==
    {order \in [1..Cardinality(set) -> set] : Range(order) = set}

\* get_user_session_info that hands out the session dictionary itself
SessionInfo_Live(user_id, order) ==
    [returned |-> user_sessions[user_id],
     dict_objects |-> dict_objects,
     list_objects |-> list_objects]

\* session.copy() with event_types replaced by a new list of its members
SessionInfo(user_id, order) ==
    LET session == dict_objects[user_sessions[user_id]]
    IN [returned |-> "copy",
        dict_objects |->
            ("copy" :> [session EXCEPT
                           !.event_types = [kind |-> "list", addr |-> "copy"]])
                @@ dict_objects,
        list_objects |-> ("copy" :> order) @@ list_objects]

\* get_user_session_info(user_id); the caller lets go of what it held before
GetUserSessionInfo(user_id) ==
    /\ IF user_id \in DOMAIN user_sessions
       THEN \E order \in Orderings(set_objects[
                    dict_objects[user_sessions[user_id]].event_types.addr]) :
                LET r == SessionInfo(user_id, order)
                IN /\ returned' = r.returned
                   /\ dict_objects' = r.dict_objects
                   /\ list_objects' = r.list_objects
       ELSE /\ returned' = "None"
            /\ UNCHANGED <<dict_objects, list_objects>>
    /\ UNCHANGED <<engineVars, alerts, managerVars, processorVars, is_trained, scoreVars, now,
                   user_sessions, set_objects, seen, last_cleanup,
                   alert_session_info>>

\* the caller writes into the dictionary it got: info['risk_score'] = 1.0, or
\* a new member of info['event_types']
CallerMutates(field) ==
    /\ returned \in DOMAIN dict_objects
    /\ LET types == dict_objects[returned].event_types
       IN IF field = "risk_score"
          THEN /\ dict_objects[returned].risk_score # CallerRisk
               /\ dict_objects' = [dict_objects EXCEPT ![returned].risk_score = CallerRisk]
               /\ UNCHANGED <<set_objects, list_objects>>
          ELSE IF types.kind = "list"
          THEN /\ "edited" \notin Range(list_objects[types.addr])
               /\ list_objects' =
                      [list_objects EXCEPT ![types.addr] = Append(@, "edited")]
               /\ UNCHANGED <<set_objects, dict_objects>>
          ELSE /\ "edited" \notin set_objects[types.addr]
               /\ set_objects' = [set_objects EXCEPT ![types.addr] = @ \cup {"edited"}]
               /\ UNCHANGED <<list_objects, dict_objects>>
    /\ UNCHANGED <<engineVars, alerts, managerVars, processorVars, is_trained, scoreVars, now,
                   user_sessions, returned, seen, last_cleanup,
                   alert_session_info>>

\* RealTimeDataProcessor._cleanup_old_sessions, run by the scheduler every
\* five minutes: it reads the clock and session_timeout and logs
CleanupOldSessions ==
    /\ last_cleanup < now
    /\ last_cleanup' = now
    /\ UNCHANGED <<engineVars, alerts, managerVars, processorVars, is_trained, scoreVars, now,
                   user_sessions, dict_objects, set_objects, list_objects,
                   returned, seen, alert_session_info>>

\* half an hour passes
SessionTick ==
    /\ now < MaxTime
    /\ now' = now + 1
    /\ UNCHANGED <<engineVars, alerts, managerVars, processorVars, is_trained, scoreVars,
                   user_sessions, dict_objects, set_objects, list_objects,
                   returned, seen, last_cleanup, alert_session_info>>

\* ------------------------------------------------------------------------
\* RealTimeDataProcessor: start(), stop(), the collector threads and the
\* scheduler thread.  Time is in ticks of five seconds.
\* ------------------------------------------------------------------------

\* the enabled collectors, in the order of self.collectors
CollectorOrder == <<"system_events", "file_access">>

Collectors == Range(CollectorOrder)

\* config 'collection_intervals', set to ten seconds for every collector
CollectionInterval == 2

\* time.sleep(5) after a failed cycle
BackoffTime == 1

\* thread.join(timeout=5) of _stop_collectors and stop()
ThreadJoinTimeout == 1

\* longest time collect_data() and the add_event calls of a cycle take: the
\* collectors' own I/O is brief, so that a cycle that fails and backs off is
\* over within the interval
MaxCollectTime == CollectionInterval - BackoffTime

\* failed cycles followed
MaxErrors == 2

\* the longest stop() can take: one join per collector thread, one for the
\* scheduler thread and the one inside anomaly_engine.stop()
StopBound == (Len(CollectorOrder) + 2) * ThreadJoinTimeout

Alive(pc) == pc \notin {"none", "exited"}

\* start(): the is_running test and self.anomaly_engine.start()
ProcessorStart ==
    /\ start_pc = "idle"
    /\ ~proc_running
    /\ cons_pc = "none"
    /\ is_running' = TRUE
    /\ cons_pc' = "loop"
    /\ start_pc' = "collectors"
    /\ start_index' = 1
    /\ UNCHANGED <<event_queue, event_batch, last_batch_age, get_wait, check_age,
                   prodVars, stopVars, putHist, flushed, stop_pending, triggered,
                   alerts, managerVars, is_trained, scoreVars, sessionVars,
                   proc_running, collection_threads, col_pc, col_timer, col_failed,
                   sched_pc, collection_errors, pstop_pc, stop_index, pjoin_wait,
                   stop_log, since_stop>>

\* _start_collectors: thread.start() of the next collector and its entry in
\* collection_threads
StartCollector ==
    /\ start_pc = "collectors"
    /\ start_index <= Len(CollectorOrder)
    /\ col_pc' = [col_pc EXCEPT ![CollectorOrder[start_index]] = "loop"]
    /\ collection_threads' = Append(collection_threads, CollectorOrder[start_index])
    /\ start_index' = start_index + 1
    /\ UNCHANGED <<engineVars, alerts, managerVars, is_trained, scoreVars,
                   sessionVars, proc_running, start_pc, col_timer, col_failed,
                   sched_pc, collection_errors, pstop_pc, stop_index, pjoin_wait,
                   stop_log, since_stop>>

\* _start_scheduler: scheduler_thread.start()
StartScheduler ==
    /\ start_pc = "collectors"
    /\ start_index > Len(CollectorOrder)
    /\ sched_pc' = "loop"
    /\ start_pc' = "flag"
    /\ UNCHANGED <<engineVars, alerts, managerVars, is_trained, scoreVars,
                   sessionVars, proc_running, start_index, collection_threads,
                   col_pc, col_timer, col_failed, collection_errors, pstop_pc,
                   stop_index, pjoin_wait, stop_log, since_stop>>

\* start(): self.is_running = True, and return
StartFlag ==
    /\ start_pc = "flag"
    /\ proc_running' = TRUE
    /\ start_pc' = "done"
    /\ UNCHANGED <<engineVars, alerts, managerVars, is_trained, scoreVars,
                   sessionVars, start_index, collection_threads, col_pc, col_timer,
                   col_failed, sched_pc, collection_errors, pstop_pc, stop_index,
                   pjoin_wait, stop_log, since_stop>>

\* collection_worker that loops without reading is_running
CollectorTest_Forever(c) ==
    /\ col_pc[c] = "loop"
    /\ col_pc' = [col_pc EXCEPT ![c] = "collect"]
    /\ col_timer' = [col_timer EXCEPT ![c] = 0]
    /\ UNCHANGED <<engineVars, alerts, managerVars, is_trained, scoreVars,
                   sessionVars, proc_running, start_pc, start_index,
                   collection_threads, col_failed, sched_pc, collection_errors,
                   pstop_pc, stop_index, pjoin_wait, stop_log, since_stop>>

\* collection_worker: `while self.is_running`
CollectorTest(c) ==
    /\ col_pc[c] = "loop"
    /\ col_pc' = [col_pc EXCEPT ![c] = IF proc_running THEN "collect" ELSE "exited"]
    /\ col_timer' = [col_timer EXCEPT ![c] = 0]
    /\ UNCHANGED <<engineVars, alerts, managerVars, is_trained, scoreVars,
                   sessionVars, proc_running, start_pc, start_index,
                   collection_threads, col_failed, sched_pc, collection_errors,
                   pstop_pc, stop_index, pjoin_wait, stop_log, since_stop>>

\* collection_worker whose thread ends when collect_data() raises
CollectorCycle_Die(c, raises, added) ==
    /\ col_pc[c] = "collect"
    /\ IF raises
       THEN /\ collection_errors < MaxErrors
            /\ col_pc' = [col_pc EXCEPT ![c] = "exited"]
            /\ col_timer' = [col_timer EXCEPT ![c] = 0]
            /\ col_failed' = [col_failed EXCEPT ![c] = TRUE]
            /\ UNCHANGED <<total_events_collected, collection_errors>>
       ELSE /\ total_events_collected + added <= MaxEvents
            /\ total_events_collected' = total_events_collected + added
            /\ col_pc' = [col_pc EXCEPT ![c] = "sleep"]
            /\ col_failed' = [col_failed EXCEPT ![c] = FALSE]
            /\ UNCHANGED <<col_timer, collection_errors>>
    /\ UNCHANGED <<is_running, event_queue, event_batch, last_batch_age, consVars,
                   prod_pc, prod_event, next_seq, add_result, queue_full_log,
                   stopVars, putHist, flushed, stop_pending, triggered,
                   alerts, managerVars, is_trained, scoreVars, sessionVars,
                   proc_running, start_pc, start_index, collection_threads,
                   sched_pc, pstop_pc, stop_index, pjoin_wait, stop_log, since_stop>>

\* collection_worker, the body of one cycle: collect_data() returns events, of
\* which add_event (which neither blocks nor raises) accepts `added`, and the
\* thread sleeps for the rest of the interval; or collect_data() raises, the
\* error is counted and the thread sleeps five seconds
CollectorCycle(c, raises, added) ==
    /\ col_pc[c] = "collect"
    /\ IF raises
       THEN /\ collection_errors < MaxErrors
            /\ collection_errors' = collection_errors + 1
            /\ col_pc' = [col_pc EXCEPT ![c] = "backoff"]
            /\ col_timer' = [col_timer EXCEPT ![c] = 0]
            /\ col_failed' = [col_failed EXCEPT ![c] = TRUE]
            /\ UNCHANGED total_events_collected
       ELSE /\ total_events_collected + added <= MaxEvents
            /\ total_events_collected' = total_events_collected + added
            /\ col_pc' = [col_pc EXCEPT ![c] = "sleep"]
            /\ col_failed' = [col_failed EXCEPT ![c] = FALSE]
            /\ UNCHANGED <<col_timer, collection_errors>>
    /\ UNCHANGED <<is_running, event_queue, event_batch, last_batch_age, consVars,
                   prod_pc, prod_event, next_seq, add_result, queue_full_log,
                   stopVars, putHist, flushed, stop_pending, triggered,
                   alerts, managerVars, is_trained, scoreVars, sessionVars,
                   proc_running, start_pc, start_index, collection_threads,
                   sched_pc, pstop_pc, stop_index, pjoin_wait, stop_log, since_stop>>

\* collection_worker: time.sleep(sleep_time) or time.sleep(5) is over
CollectorWake(c) ==
    /\ \/ col_pc[c] = "sleep" /\ col_timer[c] >= CollectionInterval
       \/ col_pc[c] = "backoff" /\ col_timer[c] >= BackoffTime
    /\ col_pc' = [col_pc EXCEPT ![c] = "loop"]
    /\ UNCHANGED <<engineVars, alerts, managerVars, is_trained, scoreVars,
                   sessionVars, proc_running, start_pc, start_index,
                   collection_threads, col_timer, col_failed, sched_pc,
                   collection_errors, pstop_pc, stop_index, pjoin_wait, stop_log,
                   since_stop>>

\* scheduler_worker: `while self.is_running`, schedule.run_pending() and the
\* start of time.sleep(60)
SchedulerTest ==
    /\ sched_pc = "loop"
    /\ sched_pc' = IF proc_running THEN "sleep" ELSE "exited"
    /\ UNCHANGED <<engineVars, alerts, managerVars, is_trained, scoreVars,
                   sessionVars, proc_running, start_pc, start_index,
                   collection_threads, col_pc, col_timer, col_failed,
                   collection_errors, pstop_pc, stop_index, pjoin_wait, stop_log,
                   since_stop>>

\* scheduler_worker: time.sleep(60) is over (its length is not counted in ticks)
SchedulerWake ==
    /\ sched_pc = "sleep"
    /\ sched_pc' = "loop"
    /\ UNCHANGED <<engineVars, alerts, managerVars, is_trained, scoreVars,
                   sessionVars, proc_running, start_pc, start_index,
                   collection_threads, col_pc, col_timer, col_failed,
                   collection_errors, pstop_pc, stop_index, pjoin_wait, stop_log,
                   since_stop>>

\* stop(): the is_running test and self.is_running = False
ProcessorStop ==
    /\ pstop_pc = "idle"
    /\ start_pc = "done"
    /\ proc_running
    /\ proc_running' = FALSE
    /\ pstop_pc' = "collectors"
    /\ stop_index' = 1
    /\ since_stop' = 0
    /\ UNCHANGED <<engineVars, alerts, managerVars, is_trained, scoreVars,
                   sessionVars, start_pc, start_index, collection_threads, col_pc,
                   col_timer, col_failed, sched_pc, collection_errors, pjoin_wait,
                   stop_log>>

\* _stop_collectors: the next thread of collection_threads; join(timeout=5) if
\* it is alive
StopCollectorTest ==
    /\ pstop_pc = "collectors"
    /\ stop_index <= Len(collection_threads)
    /\ IF Alive(col_pc[collection_threads[stop_index]])
       THEN /\ pstop_pc' = "join"
            /\ pjoin_wait' = 0
            /\ UNCHANGED stop_index
       ELSE /\ stop_index' = stop_index + 1
            /\ UNCHANGED <<pstop_pc, pjoin_wait>>
    /\ UNCHANGED <<engineVars, alerts, managerVars, is_trained, scoreVars,
                   sessionVars, proc_running, start_pc, start_index,
                   collection_threads, col_pc, col_timer, col_failed, sched_pc,
                   collection_errors, stop_log, since_stop>>

\* _stop_collectors: join(timeout=5) returns, the thread having ended or the
\* timeout passed; a thread still alive is logged
StopCollectorJoin ==
    /\ pstop_pc = "join"
    /\ \/ ~Alive(col_pc[collection_threads[stop_index]])
       \/ pjoin_wait >= ThreadJoinTimeout
    /\ stop_log' = IF Alive(col_pc[collection_threads[stop_index]])
                   THEN stop_log \cup {collection_threads[stop_index]}
                   ELSE stop_log
    /\ stop_index' = stop_index + 1
    /\ pstop_pc' = "collectors"
    /\ UNCHANGED <<engineVars, alerts, managerVars, is_trained, scoreVars,
                   sessionVars, proc_running, start_pc, start_index,
                   collection_threads, col_pc, col_timer, col_failed, sched_pc,
                   collection_errors, pjoin_wait, since_stop>>

\* _stop_collectors: collection_threads.clear(); stop(): the scheduler
\* thread's is_alive test and the start of its join(timeout=5)
StopSchedulerTest ==
    /\ pstop_pc = "collectors"
    /\ stop_index > Len(collection_threads)
    /\ collection_threads' = <<>>
    /\ stop_index' = 0
    /\ pstop_pc' = IF Alive(sched_pc) THEN "scheduler" ELSE "engine"
    /\ pjoin_wait' = 0
    /\ UNCHANGED <<engineVars, alerts, managerVars, is_trained, scoreVars,
                   sessionVars, proc_running, start_pc, start_index, col_pc,
                   col_timer, col_failed, sched_pc, collection_errors, stop_log,
                   since_stop>>

\* stop(): scheduler_thread.join(timeout=5) returns
StopSchedulerJoin ==
    /\ pstop_pc = "scheduler"
    /\ ~Alive(sched_pc) \/ pjoin_wait >= ThreadJoinTimeout
    /\ pstop_pc' = "engine"
    /\ UNCHANGED <<engineVars, alerts, managerVars, is_trained, scoreVars,
                   sessionVars, proc_running, start_pc, start_index,
                   collection_threads, col_pc, col_timer, col_failed, sched_pc,
                   collection_errors, stop_index, pjoin_wait, stop_log, since_stop>>

\* stop(): self.anomaly_engine.stop() clears the engine's flag and waits for
\* the processing thread
StopEngineCall ==
    /\ pstop_pc = "engine"
    /\ is_running' = FALSE
    /\ pstop_pc' = "engine_join"
    /\ pjoin_wait' = 0
    /\ UNCHANGED <<event_queue, event_batch, last_batch_age, consVars, prodVars,
                   stopVars, putHist, flushed, stop_pending, triggered,
                   alerts, managerVars, is_trained, scoreVars, sessionVars,
                   proc_running, start_pc, start_index, collection_threads, col_pc,
                   col_timer, col_failed, sched_pc, collection_errors, stop_index,
                   stop_log, since_stop>>

\* stop(): anomaly_engine.stop() returns, at the latest when its
\* join(timeout=5) has passed, and stop() returns
StopEngineReturn ==
    /\ pstop_pc = "engine_join"
    /\ pstop_pc' = "done"
    /\ UNCHANGED <<engineVars, alerts, managerVars, is_trained, scoreVars,
                   sessionVars, proc_running, start_pc, start_index,
                   collection_threads, col_pc, col_timer, col_failed, sched_pc,
                   collection_errors, stop_index, pjoin_wait, stop_log, since_stop>>

\* a step that does not wait is due
ProcessorUrgent ==
    \/ start_pc \in {"collectors", "flag"}
    \/ \E c \in Collectors :
           \/ col_pc[c] = "loop"
           \/ col_pc[c] = "collect" /\ col_timer[c] >= MaxCollectTime
           \/ col_pc[c] = "sleep" /\ col_timer[c] >= CollectionInterval
           \/ col_pc[c] = "backoff" /\ col_timer[c] >= BackoffTime
    \/ sched_pc = "loop"
    \/ pstop_pc \in {"collectors", "engine"}
    \/ pstop_pc = "join" /\ \/ ~Alive(col_pc[collection_threads[stop_index]])
                            \/ pjoin_wait >= ThreadJoinTimeout
    \/ pstop_pc = "scheduler" /\ (~Alive(sched_pc) \/ pjoin_wait >= ThreadJoinTimeout)
    \/ pstop_pc = "engine_join" /\ pjoin_wait >= ThreadJoinTimeout

\* five seconds pass
ProcessorTick ==
    /\ ~ProcessorUrgent
    /\ start_pc = "done"
    /\ col_timer' = [c \in Collectors |->
                        IF col_pc[c] \in {"collect", "sleep", "backoff"}
                        THEN col_timer[c] + 1 ELSE col_timer[c]]
    /\ pjoin_wait' = IF pstop_pc \in {"join", "scheduler", "engine_join"}
                     THEN pjoin_wait + 1 ELSE pjoin_wait
    /\ since_stop' = IF pstop_pc # "idle"
                     THEN Min(since_stop + 1, StopBound + 1) ELSE since_stop
    /\ UNCHANGED <<engineVars, alerts, managerVars, is_trained, scoreVars,
                   sessionVars, proc_running, start_pc, start_index,
                   collection_threads, col_pc, col_failed, sched_pc,
                   collection_errors, pstop_pc, stop_index, stop_log>>

\* the state after AnomalyEngine.__init__
EngineInit ==
    /\ is_running = FALSE
    /\ event_queue = <<>>
    /\ event_batch = <<>>
    /\ last_batch_age = 0
    /\ cons_pc = "none"
    /\ get_wait = 0
    /\ check_age = 0
    /\ prod_pc = [p \in Producers |-> "idle"]
    /\ prod_event = [p \in Producers |-> NoEvent]
    /\ next_seq = [p \in Producers |-> 1]
    /\ add_result = [p \in Producers |-> "none"]
    /\ queue_full_log = 0
    /\ total_events_collected = 0
    /\ stop_pc = "idle"
    /\ join_wait = 0
    /\ first_put_age = -1
    /\ together = TRUE
    /\ enqueued = {}
    /\ flushed = <<>>
    /\ stop_pending = <<>>
    /\ triggered = {}

\* the state after AlertManager.__init__ on an empty database
ManagerInit ==
    /\ alerts = [i \in Ids |-> NoRow]
    /\ alert_notifications = {}
    /\ alert_callbacks = <<>>
    /\ call_pc = [t \in Callers |-> "idle"]
    /\ call_alert = [t \in Callers |-> NoAlert]
    /\ cb_index = [t \in Callers |-> 0]
    /\ cb_calls = [t \in Callers |-> <<>>]
    /\ cb_error = [t \in Callers |-> FALSE]
    /\ notify_log = [t \in Callers |-> "none"]
    /\ create_log = [t \in Callers |-> "none"]
    /\ call_result = [t \in Callers |-> "none"]
    /\ op_result = "none"
    /\ db_now = 0
    /\ stats = NoStats
    /\ cleanup_calls = 0

\* no batch has been scored yet
ScoreInit ==
    /\ sc_pc = "loop"
    /\ sc_batch = <<>>
    /\ sc_events = <<>>
    /\ sc_raising = {}
    /\ sc_invoked = {}
    /\ sc_results = <<>>
    /\ sc_combined = <<>>
    /\ sc_alerts = <<>>
    /\ sc_callbacks = 0
    /\ sc_done = 0
    /\ sc_prev_raising = {}
    /\ sc_now = 0
    /\ sc_ids = <<>>

\* self.user_sessions = {}; nobody has asked for a session yet
SessionInit ==
    /\ now = 0
    /\ user_sessions = <<>>
    /\ dict_objects = <<>>
    /\ set_objects = <<>>
    /\ list_objects = <<>>
    /\ returned = "none"
    /\ seen = [u \in Users |-> <<>>]
    /\ last_cleanup = -1
    /\ alert_session_info = "none"

\* the state after RealTimeDataProcessor.__init__
ProcessorInit ==
    /\ proc_running = FALSE
    /\ start_pc = "idle"
    /\ start_index = 0
    /\ collection_threads = <<>>
    /\ col_pc = [c \in Collectors |-> "none"]
    /\ col_timer = [c \in Collectors |-> 0]
    /\ col_failed = [c \in Collectors |-> FALSE]
    /\ sched_pc = "none"
    /\ collection_errors = 0
    /\ pstop_pc = "idle"
    /\ stop_index = 0
    /\ pjoin_wait = 0
    /\ stop_log = {}
    /\ since_stop = 0

\* both detectors loaded from their model paths by _load_models
ModelsLoaded == is_trained = [m \in DetectorNames |-> TRUE]

\* the engine with the alert manager in its default configuration
\* (email.enabled defaults to False)
Init ==
    /\ EngineInit
    /\ ManagerInit
    /\ enable_email_alerts = FALSE
    /\ smtp_server = FALSE
    /\ ModelsLoaded
    /\ ScoreInit
    /\ SessionInit
    /\ ProcessorInit

\* the engine before its first batch, each detector trained or not
InitScore ==
    /\ EngineInit
    /\ ManagerInit
    /\ enable_email_alerts = FALSE
    /\ smtp_server = FALSE
    /\ is_trained \in [DetectorNames -> BOOLEAN]
    /\ ScoreInit
    /\ SessionInit
    /\ ProcessorInit

\* the alert manager, in its default configuration, on a database that holds
\* some alerts
InitStats ==
    /\ EngineInit
    /\ alerts \in StatTables
    /\ alert_notifications = {}
    /\ alert_callbacks = <<>>
    /\ call_pc = [t \in Callers |-> "idle"]
    /\ call_alert = [t \in Callers |-> NoAlert]
    /\ cb_index = [t \in Callers |-> 0]
    /\ cb_calls = [t \in Callers |-> <<>>]
    /\ cb_error = [t \in Callers |-> FALSE]
    /\ notify_log = [t \in Callers |-> "none"]
    /\ create_log = [t \in Callers |-> "none"]
    /\ call_result = [t \in Callers |-> "none"]
    /\ op_result = "none"
    /\ db_now = 0
    /\ stats = NoStats
    /\ cleanup_calls = 0
    /\ enable_email_alerts = FALSE
    /\ smtp_server = FALSE
    /\ ModelsLoaded
    /\ ScoreInit
    /\ SessionInit
    /\ ProcessorInit

\* the alert manager under any e-mail configuration
InitAlerts ==
    /\ EngineInit
    /\ ManagerInit
    /\ enable_email_alerts \in BOOLEAN
    /\ smtp_server \in BOOLEAN
    /\ ModelsLoaded
    /\ ScoreInit
    /\ SessionInit
    /\ ProcessorInit

Next ==
    \/ Start
    \/ \E p \in Producers : AddEventCheck(p)
    \/ \E p \in Producers : AddEventPut(p)
    \/ ConsumerLoop
    \/ ConsumerGet
    \/ ConsumerEmpty
    \/ ConsumerCheck
    \/ ConsumerBatchEnd
    \/ StopCall
    \/ StopJoin
    \/ StopFinal
    \/ StopBatchEnd
    \/ Tick

Spec == Init /\ [][Next]_vars

NextAlerts ==
    \/ \E c \in Callbacks : AddAlertCallback(c)
    \/ \E t \in Callers, id \in Ids, severity \in Severities, wellformed \in BOOLEAN :
           CreateAlertCall(t, id, severity, wellformed)
    \/ \E t \in Callers : CreateAlertInsert(t)
    \/ \E t \in Callers : CreateAlertNotify(t)
    \/ \E t \in Callers : CreateAlertCallback(t)
    \/ \E t \in Callers : CreateAlertReturn(t)
    \/ \E id \in Ids, by \in Actors : AcknowledgeAlert(id, by)
    \/ \E id \in Ids, by \in Actors : CloseAlert(id, by)

SpecAlerts == InitAlerts /\ [][NextAlerts]_vars

\* the alert manager with its clock and the retention call; the dashboard
\* registers its callback, one user acknowledges and closes
NextRetention ==
    \/ AddAlertCallback("cb_ok")
    \/ \E t \in Callers, id \in Ids, severity \in Severities :
           CreateAlertCall(t, id, severity, TRUE)
    \/ \E t \in Callers : CreateAlertInsert(t)
    \/ \E t \in Callers : CreateAlertNotify(t)
    \/ \E t \in Callers : CreateAlertCallback(t)
    \/ \E t \in Callers : CreateAlertReturn(t)
    \/ \E id \in Ids : AcknowledgeAlert(id, "alice")
    \/ \E id \in Ids : CloseAlert(id, "alice")
    \/ \E days_to_keep \in {0, 1} : CleanupOldAlerts(days_to_keep)
    \/ AlertTick

SpecRetention == Init /\ [][NextRetention]_vars

NextStats == GetAlertStatistics

NextProcessor ==
    \/ ProcessorStart
    \/ StartCollector
    \/ StartScheduler
    \/ StartFlag
    \/ \E c \in Collectors : CollectorTest(c)
    \/ \E c \in Collectors, raises \in BOOLEAN, added \in 0..1 :
           CollectorCycle(c, raises, added)
    \/ \E c \in Collectors : CollectorWake(c)
    \/ SchedulerTest
    \/ SchedulerWake
    \/ ProcessorStop
    \/ StopCollectorTest
    \/ StopCollectorJoin
    \/ StopSchedulerTest
    \/ StopSchedulerJoin
    \/ StopEngineCall
    \/ StopEngineReturn
    \/ ProcessorTick

SpecProcessor == Init /\ [][NextProcessor]_vars

SpecStats == InitStats /\ [][NextStats]_vars

NextScore ==
    \/ \E batch \in ScoreBatches : ScoreTakeBatch(batch)
    \/ \E raising \in FailingSets : ScoreProcessBatch(raising)
    \/ \E results \in CallResults, events \in CallEvents :
           ProcessAnomalyResultsCall(results, events)
    \/ ScoreTick

SpecScore == InitScore /\ [][NextScore]_vars

NextSessions ==
    \/ \E batch \in SessionBatches : UpdateUserSessions(batch)
    \/ \E user_id \in Users : GetUserSessionInfo(user_id)
    \/ \E field \in {"risk_score", "event_types"} : CallerMutates(field)
    \/ SessionTick

SpecSessions == Init /\ [][NextSessions]_vars

NextEviction ==
    \/ \E batch \in SessionBatches : UpdateUserSessions(batch)
    \/ CleanupOldSessions
    \/ SessionTick

SpecEviction == Init /\ [][NextEviction]_vars

NextContext ==
    \/ \E batch \in SessionBatches : UpdateUserSessions(batch)
    \/ \E batch \in SessionBatches : \E index \in 1..Len(batch) :
           ProcessBatchAlert(batch, index)
    \/ SessionTick

SpecContext == Init /\ [][NextContext]_vars

\* ------------------------------------------------------------------------
\* Claims
\* ------------------------------------------------------------------------

\* C1: the queue never holds more than QueueMaxSize events; a put that finds
\* the queue full returns False at once (the put step is always enabled, it
\* never waits for room) and leaves the queue as it was.
C1_QueueCapacity ==
    [][/\ Len(event_queue) <= QueueMaxSize
       /\ Len(event_queue') <= QueueMaxSize
       /\ \A p \in Producers :
            /\ prod_pc[p] = "put" => ENABLED AddEventPut(p)
            /\ (prod_pc[p] = "put" /\ prod_pc'[p] = "idle"
                    /\ Len(event_queue) = QueueMaxSize)
                 => (add_result'[p] = "False" /\ event_queue' = event_queue)]_vars

\* a full queue of a running engine has rejected an event
C1_Witness ==
    /\ is_running
    /\ Len(event_queue) = QueueMaxSize
    /\ queue_full_log > 0
    /\ \E p \in Producers : add_result[p] = "False"

\* C5: every alert the engine has triggered is eventually handed to
\* AlertManager.create_alert: at the latest when stop() has returned and the
\* processing thread has ended, table alerts holds a row for it.
C5_AlertsReachManager ==
    (stop_pc = "done" /\ cons_pc = "dead") =>
        \A a \in triggered :
            \E id \in Ids : alerts[id] # NoRow /\ alerts[id].severity = a.severity

\* number of add_event calls that have returned
Submitted(p) == next_seq[p] - 1

\* exactly two events were submitted, both in one tick and both accepted by the
\* running engine, no other add_event call was made, and at most Window ticks
\* have passed since
C9_Scenario ==
    /\ cons_pc # "none"
    /\ stop_pc = "idle"
    /\ Cardinality(enqueued) = 2
    /\ together
    /\ first_put_age <= Window
    /\ \A p \in Producers : prod_pc[p] = "idle"
    /\ Cardinality({c \in Producers \X (1..MaxEvents) : c[2] <= Submitted(c[1])}) = 2

\* C9: with batch_size=3 and batch_timeout=2s, two events submitted together
\* and followed by 2.5 s of silence are flushed in exactly one batch holding
\* both, however old last_batch_time was when they arrived.
C9_WindowFlush ==
    C9_Scenario =>
        /\ Len(flushed) <= 1
        /\ \A i \in 1..Len(flushed) : Range(flushed[i].batch) = enqueued
        /\ (first_put_age = Window /\ ~Urgent) => Len(flushed) = 1

\* C10: once stop() has returned, event_batch is empty and every event that was
\* in the pending batch when stop() cleared is_running is in a flushed batch.
C10_StopDrains ==
    stop_pc = "done" =>
        /\ event_batch = <<>>
        /\ \A e \in Range(stop_pending) :
             \E i \in 1..Len(flushed) : e \in Range(flushed[i].batch)

\* stop() has returned after its own final flush of a pending batch
C10_Witness ==
    /\ stop_pc = "done"
    /\ stop_pending # <<>>
    /\ flushed # <<>>
    /\ flushed[Len(flushed)].by = "stop"
    /\ Range(stop_pending) \subseteq Range(flushed[Len(flushed)].batch)

\* position of a status in open -> acknowledged -> closed
StatusRank(status) ==
    IF status = "open" THEN 1 ELSE IF status = "acknowledged" THEN 2 ELSE 3

\* C2: acknowledge_alert on a closed alert returns False and changes nothing;
\* on an absent id it returns False and creates no row; on an open alert it
\* returns True, and close_alert on the acknowledged alert returns True and
\* leaves it closed.
C2_AcknowledgeContract ==
    [][\A id \in Ids, by \in Actors :
         /\ (AcknowledgeAlert(id, by) /\ alerts[id].status = "closed")
              => (op_result' = "False" /\ alerts' = alerts)
         /\ (AcknowledgeAlert(id, by) /\ alerts[id] = NoRow)
              => (op_result' = "False" /\ alerts' = alerts)
         /\ (AcknowledgeAlert(id, by) /\ alerts[id].status = "open")
              => (op_result' = "True" /\ alerts'[id].status = "acknowledged")
         /\ (CloseAlert(id, by) /\ alerts[id].status = "acknowledged")
              => (op_result' = "True" /\ alerts'[id].status = "closed")]_vars

\* C3: the status of a stored alert only moves forward along
\* open -> acknowledged -> closed.
C3_StatusMonotonic ==
    [][\A id \in Ids :
         (alerts[id] # NoRow /\ alerts'[id] # NoRow)
           => StatusRank(alerts'[id].status) >= StatusRank(alerts[id].status)]_vars

\* C4: the INSERT of create_alert for an id that is already stored makes
\* create_alert return False at once: no row, notification row, callback or
\* notification attempt comes of it.
C4_DuplicateRejected ==
    [][\A t \in Callers :
         (call_pc[t] = "insert" /\ call_pc'[t] # "insert"
                /\ alerts[call_alert[t].id] # NoRow)
           => /\ call_pc'[t] = "idle"
              /\ call_result'[t] = "False"
              /\ alerts' = alerts
              /\ alert_notifications' = alert_notifications
              /\ cb_calls'[t] = <<>>
              /\ notify_log'[t] = "none"]_vars

\* create_alert has rejected a duplicate while callbacks were registered and
\* e-mail alerts enabled
C4_Witness ==
    \E t \in Callers :
        /\ call_pc[t] = "idle"
        /\ call_result[t] = "False"
        /\ create_log[t] = "integrity_error"
        /\ alert_callbacks # <<>>
        /\ enable_email_alerts
        /\ \E id \in Ids : alerts[id] # NoRow /\ alerts[id].severity = "HIGH"

\* C6: once create_alert is past its notification step for a HIGH or MEDIUM
\* alert with e-mail alerts enabled, alert_notifications holds an e-mail row
\* for that alert with status sent or failed.
C6_NotificationRecorded ==
    \A t \in Callers :
        (call_pc[t] = "callbacks" /\ enable_email_alerts
              /\ call_alert[t].severity \in {"HIGH", "MEDIUM"})
          => \E n \in alert_notifications :
                 /\ n.alert_id = call_alert[t].id
                 /\ n.notification_type = "email"
                 /\ n.status \in {"sent", "failed"}

\* C7: the e-mail notification of an alert is not sent by the thread that
\* calls create_alert: that thread never stands before the send with the
\* callbacks and its return still to come.
C7_NotifyOffCallerThread ==
    \A t \in Callers :
        ~(call_pc[t] = "notify" /\ enable_email_alerts
              /\ call_alert[t].severity \in {"HIGH", "MEDIUM"})

\* C8: a create_alert call that has committed its alert returns True, and when
\* it returns it has invoked every registered callback exactly once, in
\* order, whether or not one of them raised.
C8_CallbacksOnce ==
    [][\A t \in Callers :
         (call_pc[t] \in {"notify", "callbacks"} /\ call_pc'[t] = "idle")
           => /\ call_result'[t] = "True"
              /\ cb_calls[t] = alert_callbacks
              /\ \A i, j \in 1..Len(cb_calls[t]) :
                   cb_calls[t][i] = cb_calls[t][j] => i = j]_vars

\* create_alert is about to return after a callback raised and the callback
\* registered after it was still invoked
C8_Witness ==
    \E t \in Callers :
        /\ call_pc[t] = "callbacks"
        /\ cb_index[t] > Len(alert_callbacks)
        /\ cb_error[t]
        /\ Len(cb_calls[t]) = 2
        /\ cb_calls[t][1] \in RaisingCallbacks
        /\ cb_calls[t][2] \notin RaisingCallbacks

\* the flushed batches laid end to end, in the order they were scored
RECURSIVE FlushedEvents(_)
FlushedEvents(fs) ==
    IF fs = <<>> THEN <<>> ELSE FlushedEvents(SubSeq(fs, 1, Len(fs) - 1)) \o fs[Len(fs)].batch

\* number of runs of _process_batch that were handed event e
TimesScored(e) ==
    Cardinality({i \in 1..Len(flushed) : e \in Range(flushed[i].batch)})

\* C11: every event is handed to _process_batch at most once, in every
\* interleaving of the producers, the processing thread and stop(), also when
\* join(timeout=5) gives up.
C11_ScoredOnce ==
    \A e \in enqueued : TimesScored(e) <= 1

\* C12: the events of one producer are flushed in the order it submitted them:
\* wherever an earlier event of a producer comes after a later one in the
\* flushed sequence, it has also been flushed before it (it is a repetition).
C12_ProducerOrder ==
    LET fl == FlushedEvents(flushed)
    IN \A i, j \in 1..Len(fl) :
           (i < j /\ fl[i].src = fl[j].src /\ fl[j].seq < fl[i].seq)
             => \E k \in 1..(i - 1) : fl[k] = fl[j]

\* both events of one producer have been flushed, with an event of the other
\* producer between them in the queue
C12_Witness ==
    LET fl == FlushedEvents(flushed)
    IN \E i, j, k \in 1..Len(fl) :
           /\ i < k /\ k < j
           /\ fl[i].src = fl[j].src /\ fl[i].seq = 1 /\ fl[j].seq = 2
           /\ fl[k].src # fl[i].src

\* C13: an add_event call rejected for a full queue moves a metric of the
\* coordinator (a drop is counted), and the coordinator goes on to its next
\* event without submitting the rejected one again.
C13_DropCounted ==
    [][\A p \in Producers :
         (prod_pc[p] = "put" /\ prod_pc'[p] = "idle"
                /\ Len(event_queue) = QueueMaxSize)
           => /\ total_events_collected' # total_events_collected
              /\ next_seq'[p] = next_seq[p] + 1]_vars

\* the score a detector returned for event k, as returned: an anomaly score, or
\* 1.0 / 0.0 for a prediction -1 / 1
GivenScore(result, k) ==
    IF result.kind = "anomaly_scores" THEN result.values[k]
    ELSE IF result.values[k] = -1 THEN 100 ELSE 0

\* sum of weight * returned score for event k over the results from i on whose
\* length is that of the batch
RECURSIVE GivenSum(_, _, _, _)
GivenSum(results, num_events, k, i) ==
    IF i > Len(results) THEN 0
    ELSE (IF Contributes(results[i], num_events)
          THEN results[i].model_weight * GivenScore(results[i], k) ELSE 0)
             + GivenSum(results, num_events, k, i + 1)

AlertsAt(k) == {i \in 1..Len(sc_alerts) : sc_alerts[i].index = k - 1}

\* C15: an event whose combined score is below alert_threshold gets no alert,
\* one from alert_threshold up to high_alert_threshold gets one MEDIUM alert,
\* one at or above high_alert_threshold one HIGH alert, both bounds inclusive;
\* no alert is LOW.
C15_SeverityBounds ==
    /\ \A i \in 1..Len(sc_alerts) : sc_alerts[i].severity \in {"MEDIUM", "HIGH"}
    /\ \A k \in 1..Len(sc_combined) :
         /\ sc_combined[k] < AlertThreshold => AlertsAt(k) = {}
         /\ sc_combined[k] >= AlertThreshold =>
              /\ Cardinality(AlertsAt(k)) = 1
              /\ \A i \in AlertsAt(k) :
                   sc_alerts[i].severity =
                       IF sc_combined[k] >= HighAlertThreshold THEN "HIGH" ELSE "MEDIUM"

\* a combined score of exactly alert_threshold got a MEDIUM alert next to a
\* HIGH alert for another event of the batch
C15_Witness ==
    /\ \E k \in 1..Len(sc_combined) :
         /\ sc_combined[k] = AlertThreshold
         /\ \E i \in AlertsAt(k) : sc_alerts[i].severity = "MEDIUM"
    /\ \E i \in 1..Len(sc_alerts) : sc_alerts[i].severity = "HIGH"

\* the alerts due for the last batch from the detectors that ran on it
\* without raising
AlertsDue ==
    {k \in 1..Len(sc_events) :
        /\ "isolation_forest" \in sc_invoked \ sc_raising
        /\ NormalizeScores([i \in 1..Len(sc_events) |-> sc_events[i].raw])[k]
               >= AlertThreshold}

\* C16: in every run of _process_batch each trained detector is run, whether
\* or not another one raised and whether or not it raised on the batch
\* before; the results are those of the detectors that did not raise, and the
\* alerts are the ones their scores call for.
C16_FailingDetectorDropped ==
    (sc_done > 0 /\ sc_pc = "loop") =>
        /\ sc_invoked = {m \in DetectorNames : is_trained[m]}
        /\ {sc_results[i].model_name : i \in 1..Len(sc_results)}
               = sc_invoked \ sc_raising
        /\ {sc_alerts[i].index + 1 : i \in 1..Len(sc_alerts)} = AlertsDue

\* the isolation forest raised on the first batch, was run again on the second
\* and, the autoencoder raising, its scores alone produced an alert
C16_Witness ==
    /\ sc_done = 2
    /\ sc_pc = "loop"
    /\ "isolation_forest" \in sc_prev_raising
    /\ "isolation_forest" \in sc_invoked \ sc_raising
    /\ "autoencoder" \in sc_raising
    /\ sc_alerts # <<>>

\* C17: a run of _process_batch in which no detector gives a result (none is
\* trained, or every trained one raises) triggers no alert and no callback,
\* empties event_batch and returns to the loop of _process_events.
C17_NoSignal ==
    [][(sc_pc = "batch" /\ sc_pc' # "batch" /\ sc_results' = <<>>)
         => /\ sc_alerts' = <<>>
            /\ sc_callbacks' = sc_callbacks
            /\ sc_batch' = <<>>
            /\ sc_pc' = "loop"]_vars

\* after a batch on which every trained detector raised, the loop has scored
\* the next batch and raised an alert for it
C17_Witness ==
    /\ sc_done = 2
    /\ sc_pc = "loop"
    /\ sc_prev_raising = DetectorNames
    /\ sc_batch = <<>>
    /\ sc_alerts # <<>>

\* the risk scores among the events of a user, and the largest of them (0.0,
\* the value a session starts with, when none carries one)
RisksSeen(u) ==
    {seen[u][i].risk_score :
        i \in {j \in 1..Len(seen[u]) : "risk_score" \in DOMAIN seen[u][j]}}

MaxRiskSeen(u) ==
    IF RisksSeen(u) = {} THEN 0
    ELSE CHOOSE m \in RisksSeen(u) : \A r \in RisksSeen(u) : r <= m

\* C18: a user has a session exactly when the tracker has seen an event of
\* that user; the session's event_count is the number of those events and its
\* risk_score the largest risk_score among them, whatever their order and
\* however they were split into batches
C18_SessionAggregates ==
    \A u \in Users :
        /\ (u \in DOMAIN user_sessions) <=> (seen[u] # <<>>)
        /\ u \in DOMAIN user_sessions =>
               LET session == dict_objects[user_sessions[u]]
               IN /\ session.event_count = Len(seen[u])
                  /\ session.risk_score = MaxRiskSeen(u)

\* C18: events with risk 0.2, 0.9, 0.1 of one user, in that order, have been
\* processed: event_count 3 and risk 0.9
C18_Witness ==
    /\ Len(seen["u1"]) = 3
    /\ \A i \in 1..3 : "risk_score" \in DOMAIN seen["u1"][i]
    /\ [i \in 1..3 |-> seen["u1"][i].risk_score] = <<20, 90, 10>>
    /\ dict_objects[user_sessions["u1"]].event_count = 3
    /\ dict_objects[user_sessions["u1"]].risk_score = 90

\* a dictionary with its event_types collection in place of the reference
Contents(d) ==
    [fields |-> [d EXCEPT !.event_types = d.event_types.kind],
     members |-> IF d.event_types.kind = "list"
                 THEN list_objects[d.event_types.addr]
                 ELSE <<>>,
     elements |-> IF d.event_types.kind = "set"
                  THEN set_objects[d.event_types.addr]
                  ELSE {}]

\* the engine's session state, and what the caller holds
EngineSessions == [u \in DOMAIN user_sessions |-> Contents(dict_objects[user_sessions[u]])]

ReturnedValue ==
    IF returned \in DOMAIN dict_objects THEN Contents(dict_objects[returned])
    ELSE Contents(NewSession(0, [kind |-> returned, addr |-> returned]))

\* C19: a step in which the caller writes into the dictionary returned by
\* get_user_session_info, or into its event_types, leaves the engine's session
\* state as it was, and a step of _update_user_sessions leaves the returned
\* value as it was
C19_ReturnedIsCopy ==
    [][/\ (\E field \in {"risk_score", "event_types"} : CallerMutates(field))
           => EngineSessions' = EngineSessions
       /\ (\E batch \in SessionBatches : UpdateUserSessions(batch))
           => ReturnedValue' = ReturnedValue]_vars

\* C19: the caller holds a value it has written into (risk_score and
\* event_types), and the session it came from has been updated since
C19_Witness ==
    /\ returned \in DOMAIN dict_objects
    /\ dict_objects[returned].risk_score = CallerRisk
    /\ "edited" \in Range(list_objects[dict_objects[returned].event_types.addr])
    /\ \E u \in DOMAIN user_sessions :
           /\ dict_objects[u].start_time = dict_objects[returned].start_time
           /\ dict_objects[u].event_count > dict_objects[returned].event_count
           /\ dict_objects[u].risk_score # CallerRisk
           /\ "edited" \notin set_objects[u]
           /\ set_objects[u] # Range(list_objects[dict_objects[returned].event_types.addr])
                                   \ {"edited"}

\* C20: once the maintenance task has run, no session is left that had been
\* idle for longer than session_timeout when it ran
C20_ExpiredEvicted ==
    \A u \in DOMAIN user_sessions :
        last_cleanup - dict_objects[user_sessions[u]].last_activity <= SessionTimeout

\* the alert_notifications rows referencing an alert
NotificationsOf(rows, id) == {n \in rows : n.alert_id = id}

\* C21: a call cleanup_old_alerts(days_to_keep=0) deletes every alert that is
\* closed when it is called, with the notification rows referencing it, and
\* leaves every open or acknowledged alert and its notification rows as they
\* were
C21_RetentionDeletesClosed ==
    [][CleanupOldAlerts(0) =>
          \A id \in Ids :
              /\ alerts[id].status = "closed" =>
                     /\ alerts'[id] = NoRow
                     /\ NotificationsOf(alert_notifications', id) = {}
              /\ alerts[id].status \in {"open", "acknowledged"} =>
                     /\ alerts'[id] = alerts[id]
                     /\ NotificationsOf(alert_notifications', id)
                            = NotificationsOf(alert_notifications, id)]_vars

\* C22: in the dictionary get_alert_statistics returned, active_count is the
\* number of open or acknowledged alerts, each per-severity count is the number
\* of active alerts of that severity and the three sum to active_count, each
\* per-status count is the number of alerts of that status and the three sum
\* to total_alerts
C22_StatisticsCounts ==
    stats # NoStats =>
        LET rows == {id \in DOMAIN alerts : alerts[id] # NoRow}
            active == {id \in rows : alerts[id].status \in {"open", "acknowledged"}}
            of(ids, field, value) == Cardinality({id \in ids : alerts[id][field] = value})
        IN /\ stats.total_alerts = Cardinality(rows)
           /\ stats.active_count = Cardinality(active)
           /\ stats.high_severity_count = of(active, "severity", "HIGH")
           /\ stats.medium_severity_count = of(active, "severity", "MEDIUM")
           /\ stats.low_severity_count = of(active, "severity", "LOW")
           /\ stats.high_severity_count + stats.medium_severity_count
                  + stats.low_severity_count = stats.active_count
           /\ stats.open_count = of(rows, "status", "open")
           /\ stats.acknowledged_count = of(rows, "status", "acknowledged")
           /\ stats.closed_count = of(rows, "status", "closed")
           /\ stats.open_count + stats.acknowledged_count + stats.closed_count
                  = stats.total_alerts

\* C22: the statistics of three open HIGH and two closed MEDIUM alerts
C22_Witness ==
    /\ Cardinality({id \in DOMAIN alerts :
                       alerts[id].status = "open" /\ alerts[id].severity = "HIGH"}) = 3
    /\ Cardinality({id \in DOMAIN alerts :
                       alerts[id].status = "closed" /\ alerts[id].severity = "MEDIUM"}) = 2
    /\ stats # NoStats
    /\ stats.high_severity_count = 3
    /\ stats.medium_severity_count = 0
    /\ stats.closed_count = 2

C30_ThreadsKeepRunning ==
    (start_pc = "done" /\ pstop_pc = "idle") =>
        /\ \A c \in Collectors : Alive(col_pc[c])
        /\ Alive(sched_pc)

\* C24: the thread calling stop() is inside _process_batch (which begins with
\* _update_user_sessions) only when the processing thread has ended
C24_SingleWriter ==
    stop_pc = "scoring" => cons_pc = "dead"

\* C25: while the engine is running, a loop iteration of the processing
\* thread flushes the pending batch exactly when it holds at least batch_size
\* events, or holds an event and batch_timeout has passed since the last
\* flush; no flushed batch is empty, and when an iteration has ended the
\* pending batch holds fewer than batch_size events
C25_FlushCondition ==
    /\ [](/\ \A i \in 1..Len(flushed) : flushed[i].batch # <<>>
          /\ (is_running /\ cons_pc \in {"loop", "get"}) => Len(event_batch) < BatchSize)
    /\ [][(is_running /\ cons_pc = "check" /\ cons_pc' # "check") =>
             /\ cons_pc' \in {"scoring", "loop"}
             /\ cons_pc' = "scoring" <=>
                    \/ Len(event_batch) >= BatchSize
                    \/ Len(event_batch) > 0 /\ last_batch_age >= BatchTimeout
             /\ cons_pc' = "scoring" =>
                    flushed' = Append(flushed, [batch |-> event_batch, by |-> "consumer"])
             /\ cons_pc' = "loop" => flushed' = flushed]_vars

\* C25: the processing thread has flushed a full batch and, on the timeout, a
\* batch that was not full, and is running
C25_Witness ==
    /\ \E i \in 1..Len(flushed) :
           flushed[i].by = "consumer" /\ Len(flushed[i].batch) >= BatchSize
    /\ \E i \in 1..Len(flushed) :
           flushed[i].by = "consumer" /\ Len(flushed[i].batch) < BatchSize
    /\ is_running
    /\ cons_pc = "get"

\* C26: no two alerts built by the engine have the same id
C26_AlertIdsDistinct ==
    \A i, j \in 1..Len(sc_ids) : i # j => sc_ids[i] # sc_ids[j]


\* what the alert held by a callback shows as its session_info
AlertSessionInfo ==
    IF alert_session_info \in DOMAIN dict_objects
    THEN Contents(dict_objects[alert_session_info])
    ELSE Contents(NewSession(0, [kind |-> "list", addr |-> "empty"]))

\* C27: a batch processed after an alert was delivered leaves the alert's
\* session_info (event_count, duration, risk score, event_types) as it was
C27_ContextIsSnapshot ==
    [][(/\ alert_session_info \in DOMAIN dict_objects
        /\ \E batch \in SessionBatches : UpdateUserSessions(batch))
       => AlertSessionInfo' = AlertSessionInfo]_vars

\* C28: every session has duration = last_activity - start_time >= 0, and
\* no step lowers the risk score of a session that stays
C28_SessionDurationAndRisk ==
    /\ [](\A u \in DOMAIN user_sessions :
             LET session == dict_objects[user_sessions[u]]
             IN /\ session.duration = session.last_activity - session.start_time
                /\ session.duration >= 0)
    /\ [][\A u \in DOMAIN user_sessions :
             /\ u \in DOMAIN user_sessions'
             /\ dict_objects'[user_sessions'[u]].risk_score
                    >= dict_objects[user_sessions[u]].risk_score]_vars

\* a session updated a second time, later than the first, by an event of
\* lower risk than the session has
C28_Witness ==
    \E u \in DOMAIN user_sessions :
        LET session == dict_objects[user_sessions[u]]
        IN /\ session.duration > 0
           /\ Len(seen[u]) >= 2
           /\ SessionRisk(0, seen[u][1], <<seen[u][1]>>) = 90
           /\ SessionRisk(0, seen[u][2], <<seen[u][2]>>) = 10
           /\ session.risk_score = 90
====
